---- MODULE Spec2Model ----
(***************************************************************************)
(* SuperSmartMatch-Service: the V3 sector analyzer's compatibility         *)
(* resolver, the Enhanced Matching V3 scorer and the Hybrid combiner.      *)
(*                                                                         *)
(* Numbers.  The Python code computes with floats in [0,1].  Here a score  *)
(* s in [0,1] is held as the integer s * Unit, and the literal constants   *)
(* of the code are written in hundredths (0.35 is 35) and converted with   *)
(* H.  Unit is chosen so that every product and quotient the code forms    *)
(* on the bounded inputs is an exact integer.  A matching_score (0..100)   *)
(* of the V3 scorer is held as percent * Unit.  The scores the Hybrid      *)
(* combiner receives are whole percents.                                   *)
(* Strings with accents are written without them (confirme).               *)
(***************************************************************************)
EXTENDS Integers, Sequences, FiniteSets, TLC

VARIABLES
    candidate_analysis,   \* V3: classification of the candidate text
    job_analysis,         \* V3: classification of the listing text
    candidate_data,       \* V3: the candidate record (fields the scorer reads)
    job_data,             \* V3: the listing record (fields the scorer reads)
    match_result,         \* V3: result of _calculate_v3_enhanced_match, or NoResult
    compat_result,        \* resolver: result of get_enhanced_compatibility_score
    pc,                   \* position of the call under study
    enhanced_results,     \* Hybrid: list returned by the Enhanced scorer
    semantic_results,     \* Hybrid: list returned by the Semantic scorer
    smart_results,        \* Hybrid: list returned by the SmartMatch scorer
    scorer_raises,        \* Hybrid: the scorers that raise during this run
    input_valid,          \* Hybrid: whether validate_input accepts the arguments
    hybrid_return,        \* Hybrid: what calculate_matches / _combine_results returned
    text,                 \* classifier: the text given to detect_enhanced_sector
    classification,       \* classifier: the result of detect_enhanced_sector
    analysis_cache,       \* V3 scorer instance: self._analysis_cache
    hash_fn,              \* the interpreter's hash() on the texts of this process
    calls,                \* V3 scorer instance: the calculate_matches calls made on it
    memory_cache,         \* service: CacheManager.memory_cache, key -> cached result
    cache_stats,          \* service: CacheManager.cache_stats
    request_history,      \* service: PerformanceMonitor.request_history
    scorer_calls,         \* service: number of calculate_matches calls made by match
    served,               \* service: number of match requests handled
    request,              \* service: the arguments of the last match request
    response              \* service: what the last match request returned

vars == <<candidate_analysis, job_analysis, candidate_data, job_data,
          match_result, compat_result, pc,
          enhanced_results, semantic_results, smart_results,
          scorer_raises, input_valid, hybrid_return,
          text, classification, analysis_cache, hash_fn, calls,
          memory_cache, cache_stats, request_history, scorer_calls, served,
          request, response>>

v3vars == <<candidate_analysis, job_analysis, candidate_data, job_data,
            match_result, compat_result>>

hybridvars == <<enhanced_results, semantic_results, smart_results,
                scorer_raises, input_valid, hybrid_return>>

clsvars == <<text, classification>>

callvars == <<analysis_cache, hash_fn, calls>>

svcvars == <<memory_cache, cache_stats, request_history, scorer_calls, served,
             request, response>>

Unit == 168 * 10000

H(hundredths) == hundredths * (Unit \div 100)

Min2(a, b) == IF a <= b THEN a ELSE b

Max2(a, b) == IF a >= b THEN a ELSE b

Abs(a) == IF a >= 0 THEN a ELSE 0 - a

NoResult == [none |-> TRUE]

(***************************************************************************)
(* Taxonomy: sector -> sub-sector -> job.  For each job: its sector, its   *)
(* sub-sector, the keys of level_indicators, the number of skill terms     *)
(* and the lengths of its required combinations.                           *)
(***************************************************************************)
JobEntry(sector, sub, levels, nskills, combos) ==
    [sector |-> sector, sub_sector |-> sub, levels |-> levels,
     nskills |-> nskills, combos |-> combos]

sector_hierarchy ==
    [ assistant_comptable |-> JobEntry("comptabilite_finance", "comptabilite_generale", {"junior", "confirme"}, 4, {2}),
      comptable |-> JobEntry("comptabilite_finance", "comptabilite_generale", {"confirme", "senior"}, 4, {1}),
      expert_comptable |-> JobEntry("comptabilite_finance", "comptabilite_generale", {"expert"}, 4, {2}),
      gestionnaire_paie |-> JobEntry("comptabilite_finance", "paie_social", {"confirme", "senior"}, 5, {1, 2}),
      assistant_paie |-> JobEntry("comptabilite_finance", "paie_social", {"junior"}, 3, {2}),
      assistant_facturation |-> JobEntry("comptabilite_finance", "facturation", {"junior", "confirme"}, 3, {1, 2}),
      responsable_facturation |-> JobEntry("comptabilite_finance", "facturation", {"senior"}, 3, {2}),
      controleur_gestion |-> JobEntry("comptabilite_finance", "controle_gestion", {"confirme", "senior"}, 4, {2}),
      charge_recrutement |-> JobEntry("ressources_humaines", "recrutement", {"confirme", "senior"}, 4, {1, 2}),
      assistant_rh |-> JobEntry("ressources_humaines", "recrutement", {"junior"}, 3, {2}),
      gestionnaire_rh |-> JobEntry("ressources_humaines", "administration_personnel", {"confirme", "senior"}, 4, {2}),
      commercial_terrain |-> JobEntry("commercial_vente", "vente_terrain", {"confirme", "senior"}, 4, {2}),
      technico_commercial |-> JobEntry("commercial_vente", "vente_terrain", {"confirme", "senior"}, 3, {2}),
      business_developer |-> JobEntry("commercial_vente", "business_development", {"confirme", "senior"}, 3, {2}),
      assistant_juridique |-> JobEntry("juridique_legal", "assistance_juridique", {"junior", "confirme"}, 3, {2}),
      juriste |-> JobEntry("juridique_legal", "assistance_juridique", {"confirme", "senior"}, 4, {1, 2}),
      chef_equipe |-> JobEntry("management_direction", "management_operationnel", {"confirme", "senior"}, 4, {2}),
      manager |-> JobEntry("management_direction", "management_operationnel", {"senior"}, 4, {1, 2}),
      directeur |-> JobEntry("management_direction", "management_operationnel", {"expert"}, 4, {1}),
      developpeur_junior |-> JobEntry("informatique_tech", "developpement", {"junior"}, 4, {2}),
      developpeur |-> JobEntry("informatique_tech", "developpement", {"confirme", "senior"}, 4, {1}) ]

AllJobs == DOMAIN sector_hierarchy

(***************************************************************************)
(* The sub-sector compatibility matrix, in hundredths.                     *)
(***************************************************************************)
MatrixEntry(a, b, h) == [pair |-> <<a, b>>, coef |-> h]

enhanced_compatibility_matrix ==
    { MatrixEntry("comptabilite_generale", "comptabilite_generale", 100),
      MatrixEntry("comptabilite_generale", "facturation", 85),
      MatrixEntry("comptabilite_generale", "controle_gestion", 75),
      MatrixEntry("comptabilite_generale", "paie_social", 45),
      MatrixEntry("paie_social", "facturation", 25),
      MatrixEntry("paie_social", "comptabilite_generale", 45),
      MatrixEntry("paie_social", "administration_personnel", 90),
      MatrixEntry("facturation", "paie_social", 25),
      MatrixEntry("facturation", "comptabilite_generale", 85),
      MatrixEntry("facturation", "commercial_terrain", 60),
      MatrixEntry("assistance_juridique", "comptabilite_generale", 30),
      MatrixEntry("assistance_juridique", "administration_personnel", 55),
      MatrixEntry("assistance_juridique", "management_operationnel", 15),
      MatrixEntry("management_operationnel", "paie_social", 20),
      MatrixEntry("management_operationnel", "assistance_juridique", 15),
      MatrixEntry("management_operationnel", "facturation", 25),
      MatrixEntry("management_operationnel", "recrutement", 70),
      MatrixEntry("commercial_terrain", "business_development", 80),
      MatrixEntry("commercial_terrain", "facturation", 60),
      MatrixEntry("commercial_terrain", "paie_social", 10),
      MatrixEntry("recrutement", "administration_personnel", 85),
      MatrixEntry("recrutement", "paie_social", 60),
      MatrixEntry("recrutement", "management_operationnel", 70),
      MatrixEntry("developpement", "comptabilite_generale", 35),
      MatrixEntry("developpement", "management_operationnel", 45),
      MatrixEntry("developpement", "paie_social", 15) }

\* dict.get((a, b)): the coefficient stored under the key, or -1 for None
matrix_get(a, b) ==
    IF \E e \in enhanced_compatibility_matrix : e.pair = <<a, b>>
    THEN (CHOOSE e \in enhanced_compatibility_matrix : e.pair = <<a, b>>).coef
    ELSE -1

(***************************************************************************)
(* Classifications.                                                        *)
(***************************************************************************)
\* detect_enhanced_sector, step 7: min(1.0, skills_found/len(skills) + len(detected_keywords)/10)
specialization_score(skills_found, nskills, ndetected) ==
    Min2(Unit, (skills_found * Unit) \div Max2(nskills, 1) + (ndetected * Unit) \div 10)

\* the classification returned when the text is empty or no job scores
NoSignal ==
    [primary_sector |-> "inconnu", sub_sector |-> "inconnu", specific_job |-> "inconnu",
     job_level |-> "inconnu", specialization_score |-> 0]

\* the classification returned for a best job, its detected level and the
\* counts of skill terms, keywords and combination words found in the text
Analysis(job, level, skills_found, keywords_found, combo) ==
    [primary_sector |-> sector_hierarchy[job].sector,
     sub_sector |-> sector_hierarchy[job].sub_sector,
     specific_job |-> job,
     job_level |-> level,
     specialization_score |->
         specialization_score(skills_found, sector_hierarchy[job].nskills,
                              combo + keywords_found + skills_found)]

Levels(job) == sector_hierarchy[job].levels \cup {"confirme"}

(***************************************************************************)
(* Compatibility resolver (EnhancedSectorAnalyzerV3).                      *)
(***************************************************************************)
\* level_hierarchy.get(level, 2)
level_hierarchy(level) ==
    CASE level = "junior" -> 1
      [] level = "confirme" -> 2
      [] level = "senior" -> 3
      [] level = "expert" -> 4
      [] OTHER -> 2

\* the signed difference of the ranks in place of its absolute value
Mut_level_compatibility_signed(cv_level, job_level) ==
    LET diff == level_hierarchy(cv_level) - level_hierarchy(job_level)
    IN  CASE diff = 0 -> 100
          [] diff = 1 -> 85
          [] diff = 2 -> 65
          [] OTHER -> 40

\* in hundredths
_calculate_level_compatibility(cv_level, job_level) ==
    LET diff == Abs(level_hierarchy(cv_level) - level_hierarchy(job_level))
    IN  CASE diff = 0 -> 100
          [] diff = 1 -> 85
          [] diff = 2 -> 65
          [] OTHER -> 40

Mut_base_score_direct_only(cv_sub, job_sub) ==
    IF matrix_get(cv_sub, job_sub) # -1 THEN matrix_get(cv_sub, job_sub)
    ELSE 30

\* step 2 of get_enhanced_compatibility_score: direct lookup, then the
\* reversed pair, then the default 0.3; in hundredths
base_score(cv_sub, job_sub) ==
    IF matrix_get(cv_sub, job_sub) # -1 THEN matrix_get(cv_sub, job_sub)
    ELSE IF matrix_get(job_sub, cv_sub) # -1 THEN matrix_get(job_sub, cv_sub)
    ELSE 30

\* step 4: min(0.15, (a + b) / 2 * 0.15)
specialization_bonus(cv_analysis, job_an) ==
    Min2(H(15), ((cv_analysis.specialization_score + job_an.specialization_score) * 15) \div 200)

Mut_compat_no_shortcut(cv_analysis, job_an) ==
    LET final_score ==
            (base_score(cv_analysis.sub_sector, job_an.sub_sector)
               * _calculate_level_compatibility(cv_analysis.job_level, job_an.job_level))
               * (Unit \div 10000)
            + specialization_bonus(cv_analysis, job_an)
    IN  Min2(Unit, Max2(0, final_score))

get_enhanced_compatibility_score(cv_analysis, job_an) ==
    IF cv_analysis.specific_job = job_an.specific_job
    THEN Unit
    ELSE LET final_score ==
                 (base_score(cv_analysis.sub_sector, job_an.sub_sector)
                    * _calculate_level_compatibility(cv_analysis.job_level, job_an.job_level))
                    * (Unit \div 10000)
                 + specialization_bonus(cv_analysis, job_an)
         IN  Min2(Unit, Max2(0, final_score))

(***************************************************************************)
(* Enhanced Matching V3 scorer.                                            *)
(***************************************************************************)
\* in hundredths
weights_v3 ==
    [job_specificity_match |-> 35, sector_compatibility |-> 25,
     experience_relevance |-> 20, skills_match |-> 15, location_match |-> 5]

v3_thresholds ==
    [job_specificity_critical |-> H(30), sector_compatibility_min |-> H(25),
     experience_level_gap_max |-> 2, specialization_required |-> H(40)]

\* max(0.0, min(100.0, score * 100)), as percent * Unit
normalize_score(score) == Max2(0, Min2(100 * Unit, score * 100))

\* in hundredths
_calculate_level_compatibility_bonus(candidate_level, job_level) ==
    LET diff == Abs(level_hierarchy(candidate_level) - level_hierarchy(job_level))
    IN  CASE diff = 0 -> 25
          [] diff = 1 -> 15
          [] diff = 2 -> 5
          [] OTHER -> 0

Mut_specificity_sector_blind(cand_an, job_an) ==
    IF cand_an.specific_job = job_an.specific_job THEN Unit
    ELSE IF cand_an.sub_sector = job_an.sub_sector
    THEN Min2(Unit, H(75) + H(_calculate_level_compatibility_bonus(cand_an.job_level, job_an.job_level)))
    ELSE H(50)

Mut_specificity_exact_as_sub(cand_an, job_an) ==
    IF cand_an.sub_sector = job_an.sub_sector
    THEN H(75)
    ELSE IF cand_an.primary_sector = job_an.primary_sector THEN H(50)
    ELSE H(25)

_calculate_job_specificity_match(cand_an, job_an) ==
    IF cand_an.specific_job = job_an.specific_job THEN Unit
    ELSE IF cand_an.sub_sector = job_an.sub_sector
    THEN Min2(Unit, H(75) + H(_calculate_level_compatibility_bonus(cand_an.job_level, job_an.job_level)))
    ELSE IF cand_an.primary_sector = job_an.primary_sector THEN H(50)
    ELSE H(25)

\* in hundredths
_calculate_level_gap_penalty(candidate_level, job_level) ==
    LET gap == level_hierarchy(job_level) - level_hierarchy(candidate_level)
    IN  IF gap <= 0 THEN 10
        ELSE IF gap = 1 THEN 0
        ELSE IF gap = 2 THEN 0 - 15
        ELSE 0 - 25

_calculate_v3_experience_relevance(cand_data, cand_an, job_an) ==
    LET years_experience == cand_data.annees_experience
        base_tenths == IF years_experience = 0 THEN 2
                       ELSE IF years_experience <= 2 THEN 5
                       ELSE IF years_experience <= 5 THEN 8
                       ELSE 10
        specificity_multiplier ==
            IF cand_an.specific_job = job_an.specific_job THEN 100
            ELSE IF cand_an.sub_sector = job_an.sub_sector THEN 85
            ELSE IF cand_an.primary_sector = job_an.primary_sector THEN 65
            ELSE 30
        spec_bonus == (cand_an.specialization_score * 15) \div 100
        level_adjustment == _calculate_level_gap_penalty(cand_an.job_level, job_an.job_level)
        final_relevance == (base_tenths * specificity_multiplier) * (Unit \div 1000)
                           + spec_bonus + H(level_adjustment)
    IN  Min2(Unit, Max2(0, final_relevance))

(***************************************************************************)
(* Skill strings.  A skill list is held as the set of its strings (the     *)
(* result does not depend on their order).  skill_norm is                  *)
(* skill.lower().strip(); skill_len is len() of a normalised skill;        *)
(* skill_in(a, b) is the substring test "a in b" on normalised skills.     *)
(***************************************************************************)
skill_norm(skill) ==
    CASE skill \in {"SQL", "sql"} -> "sql"
      [] skill \in {"Paie", "paie"} -> "paie"
      [] skill \in {"Sage Paie ", "sage paie"} -> "sage paie"
      [] OTHER -> skill

skill_len(skill) ==
    CASE skill = "sql" -> 3
      [] skill = "paie" -> 4
      [] skill = "sage paie" -> 9
      [] OTHER -> 0

skill_in(a, b) == a = b \/ (a = "paie" /\ b = "sage paie")

Mut_skills_match_candidate_first(candidate_skills, job_skills, cand_an, job_an) ==
    IF candidate_skills = {} THEN H(10)
    ELSE IF job_skills = {} THEN H(70)
    ELSE Min2(Unit, (Cardinality({skill_norm(sk) : sk \in candidate_skills}
                                   \cap {skill_norm(sk) : sk \in job_skills}) * Unit)
                       \div Cardinality(job_skills))

_calculate_v3_skills_match(candidate_skills, job_skills, cand_an, job_an) ==
    IF job_skills = {} THEN H(70)
    ELSE IF candidate_skills = {} THEN H(10)
    ELSE
    LET candidate_skills_norm == {skill_norm(sk) : sk \in candidate_skills}
        job_skills_norm == {skill_norm(sk) : sk \in job_skills}
        exact_matches == Cardinality(candidate_skills_norm \cap job_skills_norm)
        \* number of job skills that add 0.5
        partial_halves ==
            Cardinality({ js \in job_skills :
                \E cs \in candidate_skills :
                    \/ skill_len(skill_norm(js)) > 3 /\ skill_in(skill_norm(js), skill_norm(cs))
                    \/ skill_len(skill_norm(cs)) > 3 /\ skill_in(skill_norm(cs), skill_norm(js)) })
        match_ratio == ((2 * exact_matches + partial_halves) * Unit)
                          \div (2 * Cardinality(job_skills))
        context_bonus ==
            IF cand_an.specific_job = job_an.specific_job THEN 20
            ELSE IF cand_an.sub_sector = job_an.sub_sector THEN 15
            ELSE IF cand_an.primary_sector = job_an.primary_sector THEN 10
            ELSE 0
        quantity_bonus ==
            IF Cardinality(candidate_skills) > Cardinality(job_skills)
            THEN Min2(H(10), (Cardinality(candidate_skills) - Cardinality(job_skills)) * H(2))
            ELSE 0
        final_score == match_ratio + H(context_bonus) + quantity_bonus
    IN  Min2(Unit, final_score)

(***************************************************************************)
(* Locations.  An address is held as the set of the terms the code looks   *)
(* for that its lower-cased text contains.                                 *)
(***************************************************************************)
major_cities == {"paris", "lyon", "marseille", "toulouse", "nice", "nantes"}

_calculate_location_match(cand_data, jb_data) ==
    LET candidate_location == cand_data.adresse
        job_location == jb_data.localisation
    IN  IF "remote" \in job_location \/ "teletravail" \in job_location THEN Unit
        ELSE IF \E city \in major_cities : city \in candidate_location /\ city \in job_location
        THEN Unit
        ELSE IF /\ \E term \in {"paris", "ile-de-france"} : term \in candidate_location
                /\ \E term \in {"paris", "ile-de-france"} : term \in job_location
        THEN H(90)
        ELSE H(60)

BlockingFactor(type, severity) == [type |-> type, severity |-> severity]

_detect_v3_blocking_factors(job_specificity_score, sector_compatibility, cand_an, job_an) ==
    LET candidate_rank == level_hierarchy(cand_an.job_level)
        job_rank == level_hierarchy(job_an.job_level)
    IN  (IF job_specificity_score <= v3_thresholds.job_specificity_critical
         THEN <<BlockingFactor("job_specificity_incompatibility", "high")>> ELSE <<>>)
        \o
        (IF (job_rank - candidate_rank) > v3_thresholds.experience_level_gap_max
         THEN <<BlockingFactor("experience_level_gap", "medium")>> ELSE <<>>)
        \o
        (IF /\ cand_an.specialization_score < v3_thresholds.specialization_required
            /\ job_an.specialization_score > H(70)
         THEN <<BlockingFactor("specialization_gap", "medium")>> ELSE <<>>)
        \o
        (IF sector_compatibility <= v3_thresholds.sector_compatibility_min
         THEN <<BlockingFactor("sector_incompatibility", "high")>> ELSE <<>>)

Mut_v3_recommendations_no_bucket(final_score, job_specificity_score, cand_an, job_an, cand_data, blocking_factors) ==
    LET experience == cand_data.annees_experience
    IN  (IF job_specificity_score < H(30) THEN <<"metiers_tres_differents">>
         ELSE IF job_specificity_score < H(50) THEN <<"adaptation_metier">>
         ELSE <<>>)
        \o
        (IF experience < 2 /\ job_an.job_level \in {"senior", "expert"}
         THEN <<"profil_junior_poste_senior">>
         ELSE IF experience >= 5 /\ cand_an.specialization_score > H(70)
         THEN <<"expertise_senior">>
         ELSE <<>>)
        \o
        (IF \E i \in DOMAIN blocking_factors :
                blocking_factors[i].type = "job_specificity_incompatibility"
         THEN <<"formations_internes">> ELSE <<>>)

\* each recommendation is held as the name of its template; a case of four
\* recommendations is held as four names
_generate_v3_recommendations(final_score, job_specificity_score, cand_an, job_an, cand_data, blocking_factors) ==
    LET experience == cand_data.annees_experience
    IN  (IF final_score >= H(80) THEN <<"excellent_match">>
         ELSE IF final_score >= H(60) THEN <<"bon_match">>
         ELSE IF final_score >= H(40) THEN <<"match_modere">>
         ELSE <<"match_faible">>)
        \o
        (IF cand_an.specific_job = "gestionnaire_paie"
                /\ job_an.specific_job = "assistant_facturation"
         THEN <<"paie_facturation_1", "paie_facturation_2",
                "paie_facturation_3", "paie_facturation_4">>
         ELSE IF cand_an.specific_job = "assistant_juridique"
                /\ job_an.sub_sector = "management_operationnel"
         THEN <<"assistant_manager_1", "assistant_manager_2",
                "assistant_manager_3", "assistant_manager_4">>
         ELSE IF cand_an.specific_job = "gestionnaire_paie"
                /\ job_an.sub_sector = "management_operationnel"
         THEN <<"paie_management_1", "paie_management_2",
                "paie_management_3", "paie_management_4">>
         ELSE <<>>)
        \o
        (IF job_specificity_score < H(30) THEN <<"metiers_tres_differents">>
         ELSE IF job_specificity_score < H(50) THEN <<"adaptation_metier">>
         ELSE <<>>)
        \o
        (IF experience < 2 /\ job_an.job_level \in {"senior", "expert"}
         THEN <<"profil_junior_poste_senior">>
         ELSE IF experience >= 5 /\ cand_an.specialization_score > H(70)
         THEN <<"expertise_senior">>
         ELSE <<>>)
        \o
        (IF \E i \in DOMAIN blocking_factors :
                blocking_factors[i].type = "job_specificity_incompatibility"
         THEN <<"formations_internes">> ELSE <<>>)

_calculate_v3_enhanced_match(cand_data, jb_data, cand_an, job_an) ==
    LET job_specificity_score == _calculate_job_specificity_match(cand_an, job_an)
        sector_compatibility == get_enhanced_compatibility_score(cand_an, job_an)
        experience_relevance == _calculate_v3_experience_relevance(cand_data, cand_an, job_an)
        skills_match == _calculate_v3_skills_match(cand_data.competences, jb_data.competences,
                                                   cand_an, job_an)
        location_match == _calculate_location_match(cand_data, jb_data)
        final_score ==
            ( job_specificity_score * weights_v3.job_specificity_match
            + sector_compatibility * weights_v3.sector_compatibility
            + experience_relevance * weights_v3.experience_relevance
            + skills_match * weights_v3.skills_match
            + location_match * weights_v3.location_match ) \div 100
    IN  [matching_score |-> normalize_score(final_score),
         candidate_job |-> cand_an.specific_job,
         target_job |-> job_an.specific_job,
         job_specificity_match |-> job_specificity_score,
         sector_compatibility |-> sector_compatibility,
         experience_relevance |-> experience_relevance,
         skills_match |-> skills_match,
         location_match |-> location_match,
         blocking_factors |-> _detect_v3_blocking_factors(job_specificity_score,
                                  sector_compatibility, cand_an, job_an),
         recommendations |->
             _generate_v3_recommendations(final_score, job_specificity_score,
                 cand_an, job_an, cand_data,
                 _detect_v3_blocking_factors(job_specificity_score,
                                             sector_compatibility, cand_an, job_an))]

(***************************************************************************)
(* Bounded inputs.                                                         *)
(***************************************************************************)
MaxSkillsFound == 1

MaxKeywordsFound == 1

\* every classification of the taxonomy with at most MaxSkillsFound skill
\* terms and MaxKeywordsFound keywords found, and the no-signal one
ResolverAnalyses ==
    { Analysis(job, level, sf, kw, combo) :
        job \in AllJobs, level \in {"junior", "confirme", "senior", "expert"},
        sf \in 0..MaxSkillsFound, kw \in 0..MaxKeywordsFound, combo \in {1, 2} }

IsProducible(an) ==
    \/ an = NoSignal
    \/ /\ an.specific_job \in AllJobs
       /\ an.job_level \in Levels(an.specific_job)
       /\ \E sf \in 0..Min2(MaxSkillsFound, sector_hierarchy[an.specific_job].nskills),
             kw \in 0..MaxKeywordsFound,
             combo \in sector_hierarchy[an.specific_job].combos :
             an = Analysis(an.specific_job, an.job_level, sf, kw, combo)

\* the classifications the scorer is run on: for each job, no skill term
\* or every skill term of the job found
ScorerAnalyses(jobs) ==
    { Analysis(job, level, sf, 1, combo) :
        job \in jobs, level \in {"junior", "confirme", "senior", "expert"},
        sf \in 0..5, combo \in {1, 2} }

IsScorerInput(an, jobs) ==
    \/ an = NoSignal
    \/ /\ an.specific_job \in jobs
       /\ an.job_level \in Levels(an.specific_job)
       /\ \E sf \in {0, sector_hierarchy[an.specific_job].nskills},
             combo \in sector_hierarchy[an.specific_job].combos :
             an = Analysis(an.specific_job, an.job_level, sf, 1, combo)

ScorerCandidateJobs == {"gestionnaire_paie", "assistant_facturation", "assistant_juridique"}

ScorerListingJobs == {"assistant_facturation", "manager"}

YearsInputs == {0, 2, 5, 8}

CandidateSkillInputs == SUBSET {"SQL", "Paie", "sage paie"}

JobSkillInputs == SUBSET {"sql", "paie", "Sage Paie "}

AdresseInputs == {{"paris"}, {"ile-de-france"}}

LocalisationInputs == {{}, {"remote"}, {"paris"}}

NoData == [annees_experience |-> 0, competences |-> {}, adresse |-> {}]

NoJobData == [competences |-> {}, localisation |-> {}]

HybridIdle ==
    /\ enhanced_results = <<>>
    /\ semantic_results = <<>>
    /\ smart_results = <<>>
    /\ scorer_raises = {}
    /\ input_valid = TRUE
    /\ hybrid_return = NoResult

ClassifierIdle ==
    /\ text = {}
    /\ classification = NoResult

\* no call made on the scorer instance
CallsIdle ==
    /\ analysis_cache = << >>
    /\ hash_fn = << >>
    /\ calls = << >>

\* the service as constructed: empty cache, no request recorded
ServiceIdle ==
    /\ memory_cache = << >>
    /\ cache_stats = [hits |-> 0, misses |-> 0, sets |-> 0]
    /\ request_history = <<>>
    /\ scorer_calls = 0
    /\ served = 0
    /\ request = NoResult
    /\ response = NoResult

(***************************************************************************)
(* Spec: one call of the V3 scorer on a classified pair.                   *)
(***************************************************************************)
Init ==
    /\ pc = "v3_call"
    /\ candidate_analysis \in
           {an \in ScorerAnalyses(ScorerCandidateJobs) \cup {NoSignal} :
               IsScorerInput(an, ScorerCandidateJobs)}
    /\ job_analysis \in
           {an \in ScorerAnalyses(ScorerListingJobs) \cup {NoSignal} :
               IsScorerInput(an, ScorerListingJobs)}
    /\ candidate_data \in [annees_experience : YearsInputs,
                           competences : CandidateSkillInputs,
                           adresse : AdresseInputs]
    /\ job_data \in [competences : JobSkillInputs, localisation : LocalisationInputs]
    /\ match_result = NoResult
    /\ compat_result = NoResult
    /\ HybridIdle
    /\ ClassifierIdle
    /\ CallsIdle
    /\ ServiceIdle

V3Match ==
    /\ pc = "v3_call"
    /\ match_result' = _calculate_v3_enhanced_match(candidate_data, job_data,
                                                    candidate_analysis, job_analysis)
    /\ pc' = "v3_done"
    /\ UNCHANGED <<candidate_analysis, job_analysis, candidate_data, job_data,
                   compat_result, hybridvars, clsvars, callvars, svcvars>>

Next == V3Match

Spec == Init /\ [][Next]_vars

(***************************************************************************)
(* SpecSeniority: one call of the V3 scorer on classifications whose       *)
(* levels run from junior to expert on both sides.                         *)
(***************************************************************************)
SeniorityJobs == {"assistant_paie", "gestionnaire_paie", "expert_comptable", "directeur"}

InitSeniority ==
    /\ pc = "v3_call"
    /\ candidate_analysis \in
           {an \in ScorerAnalyses(SeniorityJobs) : IsScorerInput(an, SeniorityJobs)}
    /\ job_analysis \in
           {an \in ScorerAnalyses(SeniorityJobs) : IsScorerInput(an, SeniorityJobs)}
    /\ candidate_data \in [annees_experience : YearsInputs,
                           competences : {{}},
                           adresse : {{"paris"}}]
    /\ job_data = NoJobData
    /\ match_result = NoResult
    /\ compat_result = NoResult
    /\ HybridIdle
    /\ ClassifierIdle
    /\ CallsIdle
    /\ ServiceIdle

SpecSeniority == InitSeniority /\ [][Next]_vars

(***************************************************************************)
(* Enhanced Matching V2.1 scorer (EnhancedMatchingV2Algorithm) and its     *)
(* sector analyzer (SectorAnalyzer).  Sector coefficients are in           *)
(* hundredths; the scores of the scorer are multiples of 1/Unit.           *)
(***************************************************************************)
compatibility_matrix ==
    { MatrixEntry("commercial", "commercial", 100),
      MatrixEntry("commercial", "marketing", 75),
      MatrixEntry("commercial", "management", 60),
      MatrixEntry("commercial", "ressources_humaines", 40),
      MatrixEntry("commercial", "comptabilite", 25),
      MatrixEntry("commercial", "juridique", 15),
      MatrixEntry("commercial", "informatique", 20),
      MatrixEntry("commercial", "finance", 30),
      MatrixEntry("commercial", "production", 25),
      MatrixEntry("juridique", "juridique", 100),
      MatrixEntry("juridique", "comptabilite", 70),
      MatrixEntry("juridique", "finance", 65),
      MatrixEntry("juridique", "ressources_humaines", 55),
      MatrixEntry("juridique", "management", 45),
      MatrixEntry("juridique", "commercial", 15),
      MatrixEntry("juridique", "marketing", 20),
      MatrixEntry("juridique", "informatique", 25),
      MatrixEntry("juridique", "production", 20),
      MatrixEntry("comptabilite", "comptabilite", 100),
      MatrixEntry("comptabilite", "finance", 85),
      MatrixEntry("comptabilite", "juridique", 70),
      MatrixEntry("comptabilite", "management", 55),
      MatrixEntry("comptabilite", "ressources_humaines", 50),
      MatrixEntry("comptabilite", "production", 40),
      MatrixEntry("comptabilite", "commercial", 25),
      MatrixEntry("comptabilite", "marketing", 20),
      MatrixEntry("comptabilite", "informatique", 35),
      MatrixEntry("informatique", "informatique", 100),
      MatrixEntry("informatique", "marketing", 60),
      MatrixEntry("informatique", "finance", 50),
      MatrixEntry("informatique", "management", 45),
      MatrixEntry("informatique", "production", 40),
      MatrixEntry("informatique", "comptabilite", 35),
      MatrixEntry("informatique", "ressources_humaines", 30),
      MatrixEntry("informatique", "commercial", 20),
      MatrixEntry("informatique", "juridique", 25),
      MatrixEntry("marketing", "marketing", 100),
      MatrixEntry("marketing", "commercial", 75),
      MatrixEntry("marketing", "informatique", 60),
      MatrixEntry("marketing", "management", 55),
      MatrixEntry("marketing", "ressources_humaines", 40),
      MatrixEntry("marketing", "finance", 30),
      MatrixEntry("marketing", "comptabilite", 20),
      MatrixEntry("marketing", "juridique", 20),
      MatrixEntry("marketing", "production", 25),
      MatrixEntry("ressources_humaines", "ressources_humaines", 100),
      MatrixEntry("ressources_humaines", "management", 75),
      MatrixEntry("ressources_humaines", "juridique", 55),
      MatrixEntry("ressources_humaines", "comptabilite", 50),
      MatrixEntry("ressources_humaines", "commercial", 40),
      MatrixEntry("ressources_humaines", "marketing", 40),
      MatrixEntry("ressources_humaines", "finance", 35),
      MatrixEntry("ressources_humaines", "informatique", 30),
      MatrixEntry("ressources_humaines", "production", 35),
      MatrixEntry("finance", "finance", 100),
      MatrixEntry("finance", "comptabilite", 85),
      MatrixEntry("finance", "juridique", 65),
      MatrixEntry("finance", "management", 60),
      MatrixEntry("finance", "informatique", 50),
      MatrixEntry("finance", "ressources_humaines", 35),
      MatrixEntry("finance", "commercial", 30),
      MatrixEntry("finance", "production", 35),
      MatrixEntry("finance", "marketing", 30),
      MatrixEntry("production", "production", 100),
      MatrixEntry("production", "management", 65),
      MatrixEntry("production", "informatique", 40),
      MatrixEntry("production", "comptabilite", 40),
      MatrixEntry("production", "finance", 35),
      MatrixEntry("production", "ressources_humaines", 35),
      MatrixEntry("production", "commercial", 25),
      MatrixEntry("production", "marketing", 25),
      MatrixEntry("production", "juridique", 20),
      MatrixEntry("management", "management", 100),
      MatrixEntry("management", "ressources_humaines", 75),
      MatrixEntry("management", "commercial", 60),
      MatrixEntry("management", "production", 65),
      MatrixEntry("management", "finance", 60),
      MatrixEntry("management", "marketing", 55),
      MatrixEntry("management", "informatique", 45),
      MatrixEntry("management", "juridique", 45),
      MatrixEntry("management", "comptabilite", 55) }

V2Sectors == {e.pair[1] : e \in compatibility_matrix}

\* self.compatibility_matrix.get((a, b)); -1 stands for None
compatibility_get(a, b) ==
    IF \E e \in compatibility_matrix : e.pair = <<a, b>>
    THEN (CHOOSE e \in compatibility_matrix : e.pair = <<a, b>>).coef
    ELSE -1

\* in hundredths
get_compatibility_score(cv_sector, job_sector) ==
    IF compatibility_get(cv_sector, job_sector) # -1 THEN compatibility_get(cv_sector, job_sector)
    ELSE IF compatibility_get(job_sector, cv_sector) # -1
    THEN compatibility_get(job_sector, cv_sector)
    ELSE IF cv_sector = job_sector THEN 100
    ELSE IF cv_sector = "inconnu" \/ job_sector = "inconnu" THEN 50
    ELSE 30

\* in hundredths
base_weights ==
    [sector_compatibility |-> 40, skills_match |-> 25, experience_relevance |-> 20,
     location_match |-> 10, contract_match |-> 5]

blocking_thresholds ==
    [sector_compatibility |-> H(25), experience_relevance |-> H(30),
     skills_critical_missing |-> H(40)]

_calculate_experience_relevance(cand_data, sector_compatibility) ==
    LET years_experience == cand_data.annees_experience
        base_tenths == IF years_experience = 0 THEN 2
                       ELSE IF years_experience <= 2 THEN 5
                       ELSE IF years_experience <= 5 THEN 8
                       ELSE 10
        multiplier_tenths == IF sector_compatibility >= H(80) THEN 10
                             ELSE IF sector_compatibility >= H(50) THEN 7
                             ELSE IF sector_compatibility >= H(30) THEN 4
                             ELSE 2
        senior_tenths == IF years_experience >= 7 /\ sector_compatibility < H(50) THEN 2 ELSE 0
    IN  Min2(Unit, H(base_tenths * (multiplier_tenths + senior_tenths)))

_calculate_skills_match(candidate_skills, job_skills) ==
    IF job_skills = {} THEN H(70)
    ELSE IF candidate_skills = {} THEN H(10)
    ELSE
    LET candidate_skills_norm == {skill_norm(sk) : sk \in candidate_skills}
        job_skills_norm == {skill_norm(sk) : sk \in job_skills}
        exact_matches == Cardinality(candidate_skills_norm \cap job_skills_norm)
        partial_halves ==
            Cardinality({ js \in job_skills :
                \E cs \in candidate_skills :
                    \/ skill_len(skill_norm(js)) > 3 /\ skill_in(skill_norm(js), skill_norm(cs))
                    \/ skill_len(skill_norm(cs)) > 3 /\ skill_in(skill_norm(cs), skill_norm(js)) })
        match_ratio == ((2 * exact_matches + partial_halves) * Unit)
                          \div (2 * Cardinality(job_skills))
        bonus ==
            IF Cardinality(candidate_skills) > Cardinality(job_skills)
            THEN Min2(H(15), (Cardinality(candidate_skills) - Cardinality(job_skills)) * H(3))
            ELSE 0
    IN  Min2(Unit, match_ratio + bonus)

V2_calculate_location_match(cand_data, jb_data) ==
    LET candidate_location == cand_data.adresse
        job_location == jb_data.localisation
    IN  IF "remote" \in job_location \/ "teletravail" \in job_location THEN Unit
        ELSE IF \E city \in major_cities : city \in candidate_location /\ city \in job_location
        THEN Unit
        ELSE IF /\ \E term \in {"paris", "ile-de-france"} : term \in candidate_location
                /\ \E term \in {"paris", "ile-de-france"} : term \in job_location
        THEN H(90)
        ELSE H(60)

\* contracts are held lower-cased; "" is the absent type_contrat
_calculate_contract_match(cand_data, jb_data) ==
    LET preferred_contracts == cand_data.contrats_recherches
        job_contract == jb_data.type_contrat
    IN  IF preferred_contracts = {} \/ job_contract = "" THEN H(70)
        ELSE IF job_contract \in preferred_contracts THEN Unit
        ELSE IF "cdi" \in preferred_contracts /\ job_contract = "cdd" THEN H(60)
        ELSE H(30)

Mut_blocking_factors_strict(sector_compatibility, experience_relevance, skills_match) ==
    (IF sector_compatibility < blocking_thresholds.sector_compatibility
     THEN <<BlockingFactor("sector_incompatibility", "high")>> ELSE <<>>)
    \o
    (IF experience_relevance <= blocking_thresholds.experience_relevance
     THEN <<BlockingFactor("experience_irrelevance", "medium")>> ELSE <<>>)
    \o
    (IF skills_match <= blocking_thresholds.skills_critical_missing
     THEN <<BlockingFactor("critical_skills_missing", "medium")>> ELSE <<>>)

_detect_blocking_factors(sector_compatibility, experience_relevance, skills_match) ==
    (IF sector_compatibility <= blocking_thresholds.sector_compatibility
     THEN <<BlockingFactor("sector_incompatibility", "high")>> ELSE <<>>)
    \o
    (IF experience_relevance <= blocking_thresholds.experience_relevance
     THEN <<BlockingFactor("experience_irrelevance", "medium")>> ELSE <<>>)
    \o
    (IF skills_match <= blocking_thresholds.skills_critical_missing
     THEN <<BlockingFactor("critical_skills_missing", "medium")>> ELSE <<>>)

\* each recommendation is held as the name of its template
_generate_enhanced_recommendations(final_score, sector_compatibility, cand_data, blocking_factors) ==
    LET experience == cand_data.annees_experience
    IN  (IF final_score >= H(80) THEN <<"excellent_match">>
         ELSE IF final_score >= H(60) THEN <<"bon_match">>
         ELSE IF final_score >= H(40) THEN <<"match_modere">>
         ELSE <<"match_faible">>)
        \o
        (IF sector_compatibility < H(30) THEN <<"transition_tres_difficile">>
         ELSE IF sector_compatibility < H(50) THEN <<"secteur_different">>
         ELSE <<>>)
        \o
        (IF experience < 2 /\ sector_compatibility < H(50) THEN <<"profil_junior">>
         ELSE IF experience >= 5 /\ sector_compatibility < H(40) THEN <<"experience_senior">>
         ELSE <<>>)
        \o
        (IF \E i \in DOMAIN blocking_factors :
                blocking_factors[i].type = "sector_incompatibility"
         THEN <<"entreprises_en_transformation">> ELSE <<>>)

\* the V2.1 result for given intermediate scores (lines 186-236)
v2_result(cand_data, sector_compatibility, experience_relevance, skills_match, location_match, contract_match, final_score, blocking_factors) ==
    [matching_score |-> normalize_score(final_score),
     sector_compatibility |-> sector_compatibility,
     experience_relevance |-> experience_relevance,
     skills_match |-> skills_match,
     location_match |-> location_match,
     contract_match |-> contract_match,
     blocking_factors |-> blocking_factors,
     recommendations |-> _generate_enhanced_recommendations(final_score,
                             sector_compatibility, cand_data, blocking_factors)]

v2_scored(cand_data, sector_compatibility, experience_relevance, skills_match, location_match, contract_match) ==
    v2_result(cand_data, sector_compatibility, experience_relevance, skills_match,
              location_match, contract_match,
              ( sector_compatibility * base_weights.sector_compatibility
              + experience_relevance * base_weights.experience_relevance
              + skills_match * base_weights.skills_match
              + location_match * base_weights.location_match
              + contract_match * base_weights.contract_match ) \div 100,
              _detect_blocking_factors(sector_compatibility, experience_relevance,
                                       skills_match))

v2_with_compatibility(cand_data, jb_data, sector_compatibility) ==
    v2_scored(cand_data, sector_compatibility,
              _calculate_experience_relevance(cand_data, sector_compatibility),
              _calculate_skills_match(cand_data.competences, jb_data.competences),
              V2_calculate_location_match(cand_data, jb_data),
              _calculate_contract_match(cand_data, jb_data))

_calculate_enhanced_match(cand_data, jb_data, candidate_sector, job_sector) ==
    v2_with_compatibility(cand_data, jb_data,
        H(get_compatibility_score(candidate_sector.primary_sector, job_sector.primary_sector)))

(***************************************************************************)
(* SpecV2: one call of the V2.1 scorer on a candidate and a listing whose  *)
(* sectors have been detected (on these inputs the float arithmetic of     *)
(* the scorer agrees with the exact one).                                  *)
(***************************************************************************)
SectorAnalysisResult(sector) == [primary_sector |-> sector]

V2YearsInputs == {0, 1, 5, 8}

InitV2 ==
    /\ pc = "v2_call"
    /\ candidate_analysis \in {SectorAnalysisResult(sec) : sec \in V2Sectors \cup {"inconnu"}}
    /\ job_analysis \in {SectorAnalysisResult(sec) : sec \in V2Sectors \cup {"inconnu"}}
    /\ candidate_data \in [annees_experience : V2YearsInputs,
                           competences : {{}, {"SQL"}, {"SQL", "Paie"}},
                           adresse : {{"paris"}},
                           contrats_recherches : {{}, {"cdi"}}]
    /\ job_data \in [competences : {{}, {"sql"}, {"sage paie"}},
                     localisation : {{}, {"ile-de-france"}},
                     type_contrat : {"", "cdd"}]
    /\ match_result = NoResult
    /\ compat_result = NoResult
    /\ HybridIdle
    /\ ClassifierIdle
    /\ CallsIdle
    /\ ServiceIdle

V2Match ==
    /\ pc = "v2_call"
    /\ match_result' = _calculate_enhanced_match(candidate_data, job_data,
                                                 candidate_analysis, job_analysis)
    /\ pc' = "v2_done"
    /\ UNCHANGED <<candidate_analysis, job_analysis, candidate_data, job_data,
                   compat_result, hybridvars, clsvars, callvars, svcvars>>

NextV2 == V2Match

SpecV2 == InitV2 /\ [][NextV2]_vars

(***************************************************************************)
(* SpecScorers: one call of the V2.1 scorer or of the V3 scorer.           *)
(***************************************************************************)
InitScorers == InitV2 \/ Init \/ InitSeniority

NextScorers == V2Match \/ V3Match

SpecScorers == InitScorers /\ [][NextScorers]_vars

(***************************************************************************)
(* SpecResolver: one call of the compatibility resolver on two             *)
(* classifications of the whole taxonomy.                                  *)
(***************************************************************************)
InitResolver ==
    /\ pc = "compat_call"
    /\ candidate_analysis \in {an \in ResolverAnalyses \cup {NoSignal} : IsProducible(an)}
    /\ job_analysis \in {an \in ResolverAnalyses \cup {NoSignal} : IsProducible(an)}
    /\ candidate_data = NoData
    /\ job_data = NoJobData
    /\ match_result = NoResult
    /\ compat_result = NoResult
    /\ HybridIdle
    /\ ClassifierIdle
    /\ CallsIdle
    /\ ServiceIdle

Resolve ==
    /\ pc = "compat_call"
    /\ compat_result' = get_enhanced_compatibility_score(candidate_analysis, job_analysis)
    /\ pc' = "compat_done"
    /\ UNCHANGED <<candidate_analysis, job_analysis, candidate_data, job_data,
                   match_result, hybridvars, clsvars, callvars, svcvars>>

NextResolver == Resolve

SpecResolver == InitResolver /\ [][NextResolver]_vars

(***************************************************************************)
(* Hybrid combiner (HybridMatchingAlgorithm).  A scorer's result for a     *)
(* listing is the listing's fields with matching_score (a whole percent)   *)
(* and algorithm; None is the absent result.                               *)
(***************************************************************************)
Scorers == {"enhanced", "semantic", "smart_match"}

\* in hundredths
algorithm_weights == [enhanced |-> 40, semantic |-> 35, smart_match |-> 25]

None == [none |-> TRUE]

\* f"{id}-{titre}-{entreprise}"
_get_job_id(job) == job.id \o "-" \o job.titre \o "-" \o job.entreprise

\* {self._get_job_id(job): job for job in results}: a later entry replaces
\* an earlier one with the same key
job_dict(results) ==
    [k \in {_get_job_id(results[i]) : i \in DOMAIN results} |->
        LET last == CHOOSE i \in DOMAIN results :
                        /\ _get_job_id(results[i]) = k
                        /\ \A j \in DOMAIN results : _get_job_id(results[j]) = k => j <= i
        IN  results[last]]

dict_get(d, k) == IF k \in DOMAIN d THEN d[k] ELSE None

score_or_zero(job) == IF job # None THEN job.matching_score ELSE 0

SumOf(f, S) ==
    LET RECURSIVE Sum(_)
        Sum(T) == IF T = {} THEN 0
                  ELSE LET x == CHOOSE y \in T : TRUE IN f[x] + Sum(T \ {x})
    IN  Sum(S)

\* n * n * variance of the scores held by the function sc over the set P:
\* n * sum(s^2) - (sum s)^2, so that  std_dev < d  is  NSquareVariance < d*d*n*n
NSquareVariance(sc, P) ==
    Cardinality(P) * SumOf([x \in P |-> sc[x] * sc[x]], P) - SumOf(sc, P) * SumOf(sc, P)

Mut_hybrid_score_unclamped(enhanced_job, semantic_job, smart_job) ==
    (score_or_zero(enhanced_job) * algorithm_weights.enhanced
       + score_or_zero(semantic_job) * algorithm_weights.semantic
       + score_or_zero(smart_job) * algorithm_weights.smart_match) \div 100
    + (IF Cardinality({x \in {enhanced_job, semantic_job, smart_job} : x # None}) >= 2
       THEN 5 ELSE 0)

_calculate_hybrid_score(enhanced_job, semantic_job, smart_job) ==
    LET sc == [enhanced |-> score_or_zero(enhanced_job),
               semantic |-> score_or_zero(semantic_job),
               smart_match |-> score_or_zero(smart_job)]
        weighted_hundredths == sc.enhanced * algorithm_weights.enhanced
                               + sc.semantic * algorithm_weights.semantic
                               + sc.smart_match * algorithm_weights.smart_match
        positive == {x \in Scorers : sc[x] > 0}
        n == Cardinality(positive)
        consensus_bonus ==
            IF n >= 2
            THEN IF NSquareVariance(sc, positive) < 100 * n * n THEN 5
                 ELSE IF NSquareVariance(sc, positive) < 225 * n * n THEN 3
                 ELSE 0
            ELSE 0
    IN  Min2(100, Max2(0, weighted_hundredths \div 100 + consensus_bonus))

_analyze_consensus(enhanced_job, semantic_job, smart_job) ==
    LET jobs == [enhanced |-> enhanced_job, semantic |-> semantic_job, smart_match |-> smart_job]
        algorithm_names == {x \in Scorers : jobs[x] # None}
        sc == [x \in algorithm_names |-> jobs[x].matching_score]
        n == Cardinality(algorithm_names)
        v == NSquareVariance(sc, algorithm_names)
    IN  IF n = 0 THEN [level |-> "none", agreement |-> "no_data", contributing_algorithms |-> {}]
        ELSE IF n = 1
        THEN [level |-> "single_algorithm", agreement |-> "single_source",
              contributing_algorithms |-> algorithm_names]
        ELSE IF v < 25 * n * n
        THEN [level |-> "very_high", agreement |-> "strong_agreement",
              contributing_algorithms |-> algorithm_names]
        ELSE IF v < 100 * n * n
        THEN [level |-> "high", agreement |-> "good_agreement",
              contributing_algorithms |-> algorithm_names]
        ELSE IF v < 225 * n * n
        THEN [level |-> "medium", agreement |-> "moderate_agreement",
              contributing_algorithms |-> algorithm_names]
        ELSE IF v < 625 * n * n
        THEN [level |-> "low", agreement |-> "weak_agreement",
              contributing_algorithms |-> algorithm_names]
        ELSE [level |-> "very_low", agreement |-> "disagreement",
              contributing_algorithms |-> algorithm_names]

_get_confidence_level(hybrid_score, consensus_analysis) ==
    LET consensus_level == consensus_analysis.level
    IN  IF hybrid_score >= 85 /\ consensus_level \in {"very_high", "high"} THEN "very_high"
        ELSE IF hybrid_score >= 75 /\ consensus_level \in {"very_high", "high", "medium"} THEN "high"
        ELSE IF hybrid_score >= 60 /\ consensus_level \notin {"very_low"} THEN "medium"
        ELSE IF hybrid_score >= 40 THEN "low"
        ELSE "very_low"

\* the hybrid result built for one listing (lines 100-125)
hybrid_job(enhanced_job, semantic_job, smart_job) ==
    LET base_job == IF enhanced_job # None THEN enhanced_job
                    ELSE IF semantic_job # None THEN semantic_job
                    ELSE smart_job
        hybrid_score == _calculate_hybrid_score(enhanced_job, semantic_job, smart_job)
        consensus_analysis == _analyze_consensus(enhanced_job, semantic_job, smart_job)
    IN  [id |-> base_job.id, titre |-> base_job.titre, entreprise |-> base_job.entreprise,
         matching_score |-> hybrid_score,
         algorithm |-> "Hybrid_v1.0.0",
         enhanced_score |-> score_or_zero(enhanced_job),
         semantic_score |-> score_or_zero(semantic_job),
         smart_score |-> score_or_zero(smart_job),
         consensus |-> consensus_analysis,
         confidence_level |-> _get_confidence_level(hybrid_score, consensus_analysis)]

MaxListings == 2

IdOf == <<"1", "2", "3", "4">>

ListingIds == {IdOf[i] : i \in 1..MaxListings}

\* position of the listing in jobs_data
IndexOf(id) == CHOOSE i \in 1..MaxListings : IdOf[i] = id

Listings == [id : ListingIds, titre : {"dev"}, entreprise : {"acme"}]

\* the orders in which list.sort(key=matching_score, reverse=True) can leave
\* the results: the loop runs over a Python set, whose iteration order is
\* not fixed, so results with equal scores come out in any order
SortedOrders(R) ==
    { seq \in [1..Cardinality(R) -> R] :
        /\ \A i, j \in 1..Cardinality(R) : i # j => seq[i] # seq[j]
        /\ \A i, j \in 1..Cardinality(R) :
              i < j => seq[i].matching_score >= seq[j].matching_score }

Mut_combined_jobs_zero_fill(enhanced_dict, semantic_dict, smart_dict) ==
    { LET e == dict_get(enhanced_dict, _get_job_id(l))
          s == dict_get(semantic_dict, _get_job_id(l))
          m == dict_get(smart_dict, _get_job_id(l))
      IN  [id |-> l.id, titre |-> l.titre, entreprise |-> l.entreprise,
           matching_score |-> _calculate_hybrid_score(e, s, m),
           algorithm |-> "Hybrid_v1.0.0",
           enhanced_score |-> score_or_zero(e),
           semantic_score |-> score_or_zero(s),
           smart_score |-> score_or_zero(m),
           consensus |-> _analyze_consensus(e, s, m),
           confidence_level |->
               _get_confidence_level(_calculate_hybrid_score(e, s, m),
                                     _analyze_consensus(e, s, m))] :
        l \in Listings }

\* the loop of _combine_results (lines 87-127): one hybrid result for each
\* key of the union that has a base job
combined_jobs(enhanced_dict, semantic_dict, smart_dict) ==
    LET all_job_ids == DOMAIN enhanced_dict \cup DOMAIN semantic_dict \cup DOMAIN smart_dict
        base_job(k) == IF dict_get(enhanced_dict, k) # None THEN dict_get(enhanced_dict, k)
                       ELSE IF dict_get(semantic_dict, k) # None THEN dict_get(semantic_dict, k)
                       ELSE dict_get(smart_dict, k)
    IN  { hybrid_job(dict_get(enhanced_dict, k), dict_get(semantic_dict, k),
                     dict_get(smart_dict, k)) :
            k \in {id \in all_job_ids : base_job(id) # None} }

\* the set of lists _combine_results can return
_combine_results(enh_results, sem_results, smt_results) ==
    SortedOrders(combined_jobs(job_dict(enh_results), job_dict(sem_results),
                               job_dict(smt_results)))

(***************************************************************************)
(* SpecHybrid: one call of _combine_results on three result lists, or one  *)
(* call of the Hybrid calculate_matches in which each scorer either        *)
(* returns its list or raises.                                             *)
(***************************************************************************)
ScoreInputs == {0, 50, 80}

ResultRecords(alg) ==
    [id : ListingIds, titre : {"dev"}, entreprise : {"acme"},
     matching_score : ScoreInputs, algorithm : {alg}]

\* the lists a scorer can return for listings of jobs_data: at most one
\* result for a listing, sorted by decreasing matching_score by a stable
\* sort (results.sort(key=..., reverse=True)), so that equal scores keep
\* the order of jobs_data
ScorerOutputs(alg) ==
    UNION { { seq \in [1..n -> ResultRecords(alg)] :
                \A i, j \in 1..n : i < j =>
                    /\ seq[i].id # seq[j].id
                    /\ seq[i].matching_score >= seq[j].matching_score
                    /\ seq[i].matching_score = seq[j].matching_score
                          => IndexOf(seq[i].id) < IndexOf(seq[j].id) } :
            n \in 0..MaxListings }

\* how many results of the list are for the listing
CountOf(results, listing) ==
    Cardinality({ i \in DOMAIN results :
        /\ results[i].id = listing.id
        /\ results[i].titre = listing.titre
        /\ results[i].entreprise = listing.entreprise })

SameListings(r1, r2) == \A l \in Listings : CountOf(r1, l) = CountOf(r2, l)

ResultsOf(scorer) ==
    CASE scorer = "enhanced" -> enhanced_results
      [] scorer = "semantic" -> semantic_results
      [] scorer = "smart_match" -> smart_results

InitHybrid ==
    /\ pc \in {"combine_call", "hybrid_call"}
    /\ enhanced_results \in ScorerOutputs("Enhanced_v1.0.0")
    /\ semantic_results \in ScorerOutputs("SemanticAnalyzer_v1.0.0")
    /\ smart_results \in ScorerOutputs("SmartMatch_v1.0.0")
    /\ scorer_raises \in SUBSET Scorers
    /\ input_valid \in BOOLEAN
    /\ pc = "combine_call" => scorer_raises = {} /\ input_valid
    /\ pc = "hybrid_call" =>
          /\ ~input_valid =>
                /\ scorer_raises = {}
                /\ \A x \in Scorers : ResultsOf(x) = <<>>
          /\ input_valid =>
                \* every scorer that returns scores the same non-empty jobs_data
                /\ \A x \in scorer_raises : ResultsOf(x) = <<>>
                /\ \A x \in Scorers \ scorer_raises : ResultsOf(x) # <<>>
                /\ \A x, y \in Scorers \ scorer_raises : SameListings(ResultsOf(x), ResultsOf(y))
    /\ hybrid_return = NoResult
    /\ candidate_analysis = NoSignal
    /\ job_analysis = NoSignal
    /\ candidate_data = NoData
    /\ job_data = NoJobData
    /\ match_result = NoResult
    /\ compat_result = NoResult
    /\ ClassifierIdle
    /\ CallsIdle
    /\ ServiceIdle

Returned(results) == [kind |-> "results", results |-> results]

Raised == [kind |-> "raised"]

CombineResults ==
    /\ pc = "combine_call"
    /\ \E out \in _combine_results(enhanced_results, semantic_results, smart_results) :
          hybrid_return' = Returned(out)
    /\ pc' = "combine_done"
    /\ UNCHANGED <<v3vars, enhanced_results, semantic_results, smart_results,
                   scorer_raises, input_valid, clsvars, callvars, svcvars>>

\* HybridMatchingAlgorithm.calculate_matches: the three scorers run inside
\* one try block; on any exception the Enhanced scorer is called again
\* outside it
Hybrid_calculate_matches ==
    /\ pc = "hybrid_call"
    /\ IF ~input_valid
       THEN hybrid_return' = Returned(<<>>)
       ELSE IF scorer_raises = {}
       THEN \E out \in _combine_results(enhanced_results, semantic_results, smart_results) :
               hybrid_return' = Returned(out)
       ELSE IF "enhanced" \in scorer_raises
       THEN hybrid_return' = Raised
       ELSE hybrid_return' = Returned(enhanced_results)
    /\ pc' = "hybrid_done"
    /\ UNCHANGED <<v3vars, enhanced_results, semantic_results, smart_results,
                   scorer_raises, input_valid, clsvars, callvars, svcvars>>

NextHybrid == CombineResults \/ Hybrid_calculate_matches

SpecHybrid == InitHybrid /\ [][NextHybrid]_vars

(***************************************************************************)
(* Classifier (EnhancedSectorAnalyzerV3.detect_enhanced_sector).  A text   *)
(* is held as the set of the words it is made of, standing for these words *)
(* separated by commas; a term of the taxonomy is in the text when it is   *)
(* a substring of one of the words.  A job's accumulated score is held in  *)
(* halves (3.0 is 6).                                                      *)
(***************************************************************************)
JobConfig(keywords, required_combinations, exclude_combinations, level_indicators, skills) ==
    [keywords |-> keywords, required_combinations |-> required_combinations,
     exclude_combinations |-> exclude_combinations,
     level_indicators |-> level_indicators, skills |-> skills]

job_configs ==
    [ assistant_comptable |-> JobConfig({"assistant comptable", "aide comptable", "assistant comptabilite"},
          <<{"assistant", "comptable"}>>,
          {},
          <<<<"junior", {"assistant", "aide"}>>, <<"confirme", {"comptable"}>>>>,
          {"saisie comptable", "sage", "facturation", "rapprochement bancaire"}),
      comptable |-> JobConfig({"comptable", "accounting", "comptabilite generale"},
          <<{"comptable"}, {"accounting"}>>,
          {{"assistant", "comptable"}, {"gestionnaire", "paie"}},
          <<<<"confirme", {"comptable"}>>, <<"senior", {"responsable comptable"}>>>>,
          {"bilan", "compte de resultat", "erp", "liasses fiscales"}),
      expert_comptable |-> JobConfig({"expert-comptable", "expert comptable", "cabinet comptable"},
          <<{"expert", "comptable"}>>,
          {},
          <<<<"expert", {"expert"}>>>>,
          {"audit", "conseil", "creation entreprise", "optimisation fiscale"}),
      gestionnaire_paie |-> JobConfig({"gestionnaire de paie", "gestionnaire paie", "paie", "bulletin de paie"},
          <<{"gestionnaire", "paie"}, {"paie"}>>,
          {},
          <<<<"confirme", {"gestionnaire"}>>, <<"senior", {"responsable paie"}>>>>,
          {"dads", "urssaf", "charges sociales", "silae", "paie sage"}),
      assistant_paie |-> JobConfig({"assistant paie", "aide a la paie"},
          <<{"assistant", "paie"}>>,
          {},
          <<<<"junior", {"assistant"}>>>>,
          {"saisie paie", "pointage", "variables de paie"}),
      assistant_facturation |-> JobConfig({"assistant facturation", "facturiere", "facturation"},
          <<{"assistant", "facturation"}, {"facturation"}>>,
          {},
          <<<<"junior", {"assistant"}>>, <<"confirme", {"facturiere"}>>>>,
          {"emission factures", "relances clients", "recouvrement"}),
      responsable_facturation |-> JobConfig({"responsable facturation", "chef facturation"},
          <<{"responsable", "facturation"}>>,
          {},
          <<<<"senior", {"responsable", "chef"}>>>>,
          {"suivi ca", "impayes", "reporting commercial"}),
      controleur_gestion |-> JobConfig({"controleur de gestion", "controle de gestion", "controlling"},
          <<{"controleur", "gestion"}, {"controle", "gestion"}>>,
          {},
          <<<<"confirme", {"controleur"}>>, <<"senior", {"directeur controle"}>>>>,
          {"budget", "reporting", "business plan", "tableaux de bord"}),
      charge_recrutement |-> JobConfig({"charge de recrutement", "recruteur", "talent acquisition"},
          <<{"charge", "recrutement"}, {"recruteur"}>>,
          {},
          <<<<"confirme", {"charge"}>>, <<"senior", {"responsable recrutement"}>>>>,
          {"sourcing", "entretien", "linkedin recruiter", "assessment"}),
      assistant_rh |-> JobConfig({"assistant rh", "assistant ressources humaines"},
          <<{"assistant", "rh"}, {"assistant", "ressources"}>>,
          {},
          <<<<"junior", {"assistant"}>>>>,
          {"administration personnel", "dossiers employes", "onboarding"}),
      gestionnaire_rh |-> JobConfig({"gestionnaire rh", "gestionnaire ressources humaines", "rh generaliste"},
          <<{"gestionnaire", "rh"}, {"rh", "generaliste"}>>,
          {},
          <<<<"confirme", {"gestionnaire"}>>, <<"senior", {"responsable rh"}>>>>,
          {"sirh", "formation", "entretiens annuels", "droit social"}),
      commercial_terrain |-> JobConfig({"commercial terrain", "commercial itinerant", "vendeur terrain"},
          <<{"commercial", "terrain"}, {"vendeur", "terrain"}>>,
          {},
          <<<<"confirme", {"commercial"}>>, <<"senior", {"responsable commercial"}>>>>,
          {"prospection", "negociation", "crm", "fidelisation"}),
      technico_commercial |-> JobConfig({"technico-commercial", "technico commercial", "ingenieur commercial"},
          <<{"technico", "commercial"}, {"ingenieur", "commercial"}>>,
          {},
          <<<<"confirme", {"technico"}>>, <<"senior", {"responsable technico"}>>>>,
          {"solution technique", "avant-vente", "support client"}),
      business_developer |-> JobConfig({"business developer", "business development", "developpeur commercial"},
          <<{"business", "developer"}, {"business", "development"}>>,
          {},
          <<<<"confirme", {"business"}>>, <<"senior", {"head of business"}>>>>,
          {"partenariats", "strategie commerciale", "market expansion"}),
      assistant_juridique |-> JobConfig({"assistant juridique", "assistant legal", "secretaire juridique"},
          <<{"assistant", "juridique"}, {"assistant", "legal"}>>,
          {},
          <<<<"junior", {"assistant"}>>, <<"confirme", {"secretaire juridique"}>>>>,
          {"redaction courrier", "veille juridique", "gestion dossiers"}),
      juriste |-> JobConfig({"juriste", "legal counsel", "conseiller juridique"},
          <<{"juriste"}, {"legal", "counsel"}>>,
          {},
          <<<<"confirme", {"juriste"}>>, <<"senior", {"juriste senior"}>>>>,
          {"contrats", "contentieux", "compliance", "droit des affaires"}),
      chef_equipe |-> JobConfig({"chef d'equipe", "team leader", "responsable equipe"},
          <<{"chef", "equipe"}, {"team", "leader"}, {"responsable", "equipe"}>>,
          {},
          <<<<"confirme", {"chef"}>>, <<"senior", {"responsable"}>>>>,
          {"encadrement", "coordination", "planning", "objectifs"}),
      manager |-> JobConfig({"manager", "responsable service", "chef de service"},
          <<{"manager"}, {"responsable", "service"}, {"chef", "service"}>>,
          {{"assistant"}, {"gestionnaire", "paie"}},
          <<<<"senior", {"manager", "responsable"}>>>>,
          {"management", "strategie", "reporting", "budget equipe"}),
      directeur |-> JobConfig({"directeur", "director", "directrice"},
          <<{"directeur"}, {"director"}>>,
          {},
          <<<<"expert", {"directeur"}>>>>,
          {"vision strategique", "leadership", "developpement", "p&l"}),
      developpeur_junior |-> JobConfig({"developpeur junior", "developpeur debutant", "junior developer"},
          <<{"developpeur", "junior"}, {"developer", "junior"}>>,
          {},
          <<<<"junior", {"junior", "debutant"}>>>>,
          {"programmation", "git", "debugging", "frameworks"}),
      developpeur |-> JobConfig({"developpeur", "developer", "programmeur"},
          <<{"developpeur"}, {"developer"}, {"programmeur"}>>,
          {{"developpeur", "junior"}},
          <<<<"confirme", {"developpeur"}>>, <<"senior", {"senior developer"}>>>>,
          {"architecture", "apis", "databases", "devops"}) ]

JobOrder ==
    <<"assistant_comptable", "comptable", "expert_comptable", "gestionnaire_paie", "assistant_paie", "assistant_facturation", "responsable_facturation", "controleur_gestion", "charge_recrutement", "assistant_rh", "gestionnaire_rh", "commercial_terrain", "technico_commercial", "business_developer", "assistant_juridique", "juriste", "chef_equipe", "manager", "directeur", "developpeur_junior", "developpeur">>

exclusion_rules ==
    { [if_contains |-> {"assistant", "facturation"}, exclude_sectors |-> {"management_direction"}],
      [if_contains |-> {"gestionnaire", "paie"}, exclude_sectors |-> {"management_direction"}],
      [if_contains |-> {"assistant", "juridique"}, exclude_sectors |-> {"management_direction"}] }

Words ==
    {"assistant", "juridique", "gestionnaire", "paie", "facturation", "rh", "directeur", "manager", "comptable", "juriste", "gestionnaire de paie"}

\* the pairs <<term, word>> in which the term is a proper substring of the word
ProperSubstrings ==
    {<<"gestion", "gestionnaire">>,
     <<"gestion", "gestionnaire de paie">>,
     <<"gestionnaire", "gestionnaire de paie">>,
     <<"paie", "gestionnaire de paie">>}

\* keyword.lower() in text_normalized
in_text(term, txt) == \E w \in txt : term = w \/ <<term, w>> \in ProperSubstrings

\* all(keyword.lower() in text_normalized for keyword in combo)
all_in_text(combo, txt) == \A keyword \in combo : in_text(keyword, txt)

\* position of the job in the iteration over sector_hierarchy
JobIndex(job) == CHOOSE i \in DOMAIN JobOrder : JobOrder[i] = job

\* step 1: some required combination is wholly in the text
combination_found(job, txt) ==
    \E i \in DOMAIN job_configs[job].required_combinations :
        all_in_text(job_configs[job].required_combinations[i], txt)

\* the first required combination found (the loop breaks on it)
required_combo(job, txt) ==
    LET rc == job_configs[job].required_combinations
        first == CHOOSE i \in DOMAIN rc :
                     /\ all_in_text(rc[i], txt)
                     /\ \A j \in DOMAIN rc : all_in_text(rc[j], txt) => i <= j
    IN  rc[first]

Mut_excluded_own_only(job, txt) ==
    \E exclude_combo \in job_configs[job].exclude_combinations :
        all_in_text(exclude_combo, txt)

\* steps 2 and 3: the job's own exclude_combinations and the global rules
excluded(job, txt) ==
    \/ \E exclude_combo \in job_configs[job].exclude_combinations :
           all_in_text(exclude_combo, txt)
    \/ \E rule \in exclusion_rules :
           /\ all_in_text(rule.if_contains, txt)
           /\ sector_hierarchy[job].sector \in rule.exclude_sectors

\* step 6: the first level, in the order of level_indicators, one of whose
\* indicators is in the text; "none" when there is none
detected_level(job, txt) ==
    LET li == job_configs[job].level_indicators
        hit(i) == \E indicator \in li[i][2] : in_text(indicator, txt)
    IN  IF \E i \in DOMAIN li : hit(i)
        THEN li[CHOOSE i \in DOMAIN li : hit(i) /\ \A j \in DOMAIN li : hit(j) => i <= j][1]
        ELSE "none"

\* steps 4 to 7: the entry job_scores[job_name] of a job whose combination
\* is found and that is not excluded
job_score(job, txt) ==
    LET cfg == job_configs[job]
        keywords_found == Cardinality({k \in cfg.keywords : in_text(k, txt)})
        skills_found == Cardinality({s \in cfg.skills : in_text(s, txt)})
        level == detected_level(job, txt)
        ndetected == Cardinality(required_combo(job, txt)) + keywords_found + skills_found
    IN  [sector |-> sector_hierarchy[job].sector,
         sub_sector |-> sector_hierarchy[job].sub_sector,
         score |-> 6 + 3 * keywords_found + 2 * skills_found
                     + (IF level # "none" THEN 1 ELSE 0),
         job_level |-> IF level # "none" THEN level ELSE "confirme",
         specialization_score |->
             specialization_score(skills_found, Cardinality(cfg.skills), ndetected)]

\* the keys of job_scores after the loop
scored_jobs(txt) ==
    {job \in AllJobs : combination_found(job, txt) /\ ~excluded(job, txt)}

\* the dictionary job_scores after the loop over sector_hierarchy
job_scores(txt) == [job \in scored_jobs(txt) |-> job_score(job, txt)]

\* a sort that puts the job declared last first among equal scores
Mut_sorted_jobs_last_declared(scores) ==
    LET before(a, b) == \/ scores[a].score > scores[b].score
                        \/ /\ scores[a].score = scores[b].score
                           /\ JobIndex(a) > JobIndex(b)
    IN  [k \in 1..Cardinality(DOMAIN scores) |->
            CHOOSE job \in DOMAIN scores :
                Cardinality({o \in DOMAIN scores : before(o, job)}) = k - 1]

\* sorted(job_scores.items(), key=score, reverse=True): a stable sort, so
\* equal scores keep the order of insertion
sorted_jobs(scores) ==
    LET before(a, b) == \/ scores[a].score > scores[b].score
                        \/ /\ scores[a].score = scores[b].score
                           /\ JobIndex(a) < JobIndex(b)
    IN  [k \in 1..Cardinality(DOMAIN scores) |->
            CHOOSE job \in DOMAIN scores :
                Cardinality({o \in DOMAIN scores : before(o, job)}) = k - 1]

\* min(1.0, best / max(total_score, 1)) as the fraction num/den; the scores
\* are in halves, so 1 is 2
confidence(best_score, total_score) ==
    IF best_score >= Max2(total_score, 2) THEN [num |-> 1, den |-> 1]
    ELSE [num |-> best_score, den |-> Max2(total_score, 2)]

\* the entry that position k of sorted_jobs adds to secondary_sectors: its
\* sector when it passes the threshold and differs from the primary sector
secondary_entry(k, sorted, scores) ==
    IF /\ Len(sorted) >= k
       /\ 10 * scores[sorted[k]].score >= 3 * scores[sorted[1]].score
       /\ scores[sorted[k]].sector # scores[sorted[1]].sector
    THEN <<scores[sorted[k]].sector>>
    ELSE <<>>

\* the comprehension over sorted_jobs[1:3]
secondary_sectors(sorted, scores) ==
    secondary_entry(2, sorted, scores) \o secondary_entry(3, sorted, scores)

\* the result when no job is scored
unknown_result ==
    [primary_sector |-> "inconnu", sub_sector |-> "inconnu", specific_job |-> "inconnu",
     confidence |-> [num |-> 0, den |-> 1], secondary_sectors |-> <<>>,
     job_level |-> "inconnu", specialization_score |-> 0]

\* the result built from the sorted jobs, the best one first
best_job_result(sorted, scores) ==
    [primary_sector |-> scores[sorted[1]].sector,
     sub_sector |-> scores[sorted[1]].sub_sector,
     specific_job |-> sorted[1],
     confidence |-> confidence(scores[sorted[1]].score,
                               SumOf([j \in DOMAIN scores |-> scores[j].score], DOMAIN scores)),
     secondary_sectors |-> secondary_sectors(sorted, scores),
     job_level |-> scores[sorted[1]].job_level,
     specialization_score |-> scores[sorted[1]].specialization_score]

\* the part of detect_enhanced_sector after the loop
result_of_scores(scores) ==
    IF DOMAIN scores = {} THEN unknown_result
    ELSE best_job_result(sorted_jobs(scores), scores)

detect_enhanced_sector(txt) ==
    IF txt = {} THEN unknown_result ELSE result_of_scores(job_scores(txt))

MaxTextWords == 4

Texts == {txt \in SUBSET Words : Cardinality(txt) <= MaxTextWords}

(***************************************************************************)
(* SpecClassifier: one call of detect_enhanced_sector on a text.           *)
(***************************************************************************)
InitClassifier ==
    /\ pc = "classify_call"
    /\ text \in Texts
    /\ classification = NoResult
    /\ candidate_analysis = NoSignal
    /\ job_analysis = NoSignal
    /\ candidate_data = NoData
    /\ job_data = NoJobData
    /\ match_result = NoResult
    /\ compat_result = NoResult
    /\ HybridIdle
    /\ CallsIdle
    /\ ServiceIdle

Classify ==
    /\ pc = "classify_call"
    /\ classification' = detect_enhanced_sector(text)
    /\ pc' = "classify_done"
    /\ UNCHANGED <<text, v3vars, hybridvars, callvars, svcvars>>

NextClassifier == Classify

SpecClassifier == InitClassifier /\ [][NextClassifier]_vars

(***************************************************************************)
(* SpecConsensus: one call of _combine_results on the results of the       *)
(* three scorers for a single listing, each absent or with a score that is *)
(* a multiple of 10 between 0 and 100 (on these the float arithmetic of    *)
(* _calculate_hybrid_score agrees with the exact one).                     *)
(***************************************************************************)
ConsensusScores == {10 * k : k \in 0..10}

ConsensusOutputs(alg) ==
    {<<>>} \cup { <<[id |-> IdOf[1], titre |-> "dev", entreprise |-> "acme",
                     matching_score |-> sc, algorithm |-> alg]>> : sc \in ConsensusScores }

InitConsensus ==
    /\ pc = "combine_call"
    /\ enhanced_results \in ConsensusOutputs("Enhanced_v1.0.0")
    /\ semantic_results \in ConsensusOutputs("SemanticAnalyzer_v1.0.0")
    /\ smart_results \in ConsensusOutputs("SmartMatch_v1.0.0")
    /\ scorer_raises = {}
    /\ input_valid = TRUE
    /\ hybrid_return = NoResult
    /\ candidate_analysis = NoSignal
    /\ job_analysis = NoSignal
    /\ candidate_data = NoData
    /\ job_data = NoJobData
    /\ match_result = NoResult
    /\ compat_result = NoResult
    /\ ClassifierIdle
    /\ CallsIdle
    /\ ServiceIdle

NextConsensus == CombineResults

SpecConsensus == InitConsensus /\ [][NextConsensus]_vars

(***************************************************************************)
(* SpecComponents: one call of one of the four components: the classifier, *)
(* the compatibility resolver, the V3 scorer or the combiner.              *)
(***************************************************************************)
InitComponents == InitClassifier \/ InitResolver \/ Init \/ InitConsensus

NextComponents == Classify \/ Resolve \/ V3Match \/ CombineResults

SpecComponents == InitComponents /\ [][NextComponents]_vars

(***************************************************************************)
(* Calls of EnhancedMatchingV3Algorithm.calculate_matches on one scorer    *)
(* instance.  An argument is a tagged value: a dict with its items, a list *)
(* with its items, or a value of another type.  The steps of a call are    *)
(* the operations on the shared self._analysis_cache.                      *)
(***************************************************************************)
DictValue(items) == [kind |-> "dict", items |-> items]

ListValue(items) == [kind |-> "list", items |-> items]

\* a value that is neither a dict nor a list (a string, None)
OtherValue == [kind |-> "other"]

\* d.get(key, default)
get(d, key, default) == IF key \in DOMAIN d.items THEN d.items[key] ELSE default

\* d[key] = value
set_item(d, key, value) ==
    DictValue([k \in DOMAIN d.items \cup {key} |-> IF k = key THEN value ELSE d.items[k]])

\* BaseMatchingAlgorithm.validate_input: the verdict and the candidate
\* object as the call leaves it
validate_input(candidate, jobs) ==
    IF candidate.kind # "dict" THEN [ok |-> FALSE, candidate |-> candidate]
    ELSE IF jobs.kind # "list" \/ Len(jobs.items) = 0
    THEN [ok |-> FALSE, candidate |-> candidate]
    ELSE LET filled == IF "competences" \notin DOMAIN candidate.items
                       THEN set_item(candidate, "competences", {})
                       ELSE candidate
         IN  [ok |-> \A i \in DOMAIN jobs.items : jobs.items[i].kind = "dict",
              candidate |-> filled]

\* the words of the text built from the title and the skills
_extract_candidate_text(candidate) ==
    (IF get(candidate, "titre_poste", "") # "" THEN {get(candidate, "titre_poste", "")} ELSE {})
    \cup {skill_norm(sk) : sk \in get(candidate, "competences", {})}

_extract_job_text(job) ==
    (IF get(job, "titre", "") # "" THEN {get(job, "titre", "")} ELSE {})
    \cup {skill_norm(sk) : sk \in get(job, "competences", {})}

\* the fields of the candidate that _calculate_v3_enhanced_match reads
candidate_fields(candidate) ==
    [annees_experience |-> get(candidate, "annees_experience", 0),
     competences |-> get(candidate, "competences", {}),
     adresse |-> get(candidate, "adresse", {})]

job_fields(job) ==
    [competences |-> get(job, "competences", {}),
     localisation |-> get(job, "localisation", {})]

\* job_result = job.copy(); job_result.update(match_result); cache_hit is
\* the field of metadata_v3 (line 300), read from the cache as it is when
\* the listing is scored
job_result(candidate, job, cand_an, job_an, cache) ==
    [job |-> job,
     match |-> _calculate_v3_enhanced_match(candidate_fields(candidate), job_fields(job),
                                            cand_an, job_an),
     cache_hit |-> IF \E k \in DOMAIN cache : cache[k] = cand_an
                   THEN "analysis_cached" ELSE "fresh_analysis"]

\* results.sort(key=matching_score, reverse=True): a stable sort
sort_results(results) ==
    LET before(i, j) ==
            \/ results[i].match.matching_score > results[j].match.matching_score
            \/ /\ results[i].match.matching_score = results[j].match.matching_score
               /\ i < j
    IN  [k \in DOMAIN results |->
            results[CHOOSE i \in DOMAIN results :
                        Cardinality({j \in DOMAIN results : before(j, i)}) = k - 1]]

\* self._analysis_cache[key] = analysis
cache_put(cache, key, analysis) ==
    [k \in DOMAIN cache \cup {key} |-> IF k = key THEN analysis ELSE cache[k]]

CallIds == {"call_1", "call_2"}

CandidateTitles == {"paie", "juriste"}

ListingTitles == {"paie", "manager"}

CallTexts == {{t} : t \in CandidateTitles \cup ListingTitles}

\* the values hash() takes on the texts
HashKeys == {"h1", "h2", "h3"}

CandidateInputs ==
    {DictValue([titre_poste |-> t]) : t \in CandidateTitles}
    \cup {DictValue([titre_poste |-> t, competences |-> {}]) : t \in CandidateTitles}
    \cup {OtherValue}

JobsInputs ==
    {ListValue(<<DictValue([titre |-> t])>>) : t \in ListingTitles}
    \cup {ListValue(<<>>), ListValue(<<OtherValue>>), OtherValue}

NewCall(candidate, jobs) ==
    [candidate |-> candidate, jobs |-> jobs, pc |-> "idle",
     candidate_analysis |-> NoResult, i |-> 1, results |-> <<>>, ret |-> NoResult]

InitCalls ==
    /\ pc = "calls"
    /\ analysis_cache = << >>
    /\ hash_fn \in [CallTexts -> HashKeys]
    /\ calls \in [CallIds -> {NewCall(c, j) : c \in CandidateInputs, j \in JobsInputs}]
    /\ candidate_analysis = NoSignal
    /\ job_analysis = NoSignal
    /\ candidate_data = NoData
    /\ job_data = NoJobData
    /\ match_result = NoResult
    /\ compat_result = NoResult
    /\ HybridIdle
    /\ ClassifierIdle
    /\ ServiceIdle

CallFrame == UNCHANGED <<pc, hash_fn, v3vars, hybridvars, clsvars, svcvars>>

\* lines 71-72: validate_input, and the early return of the empty list
Validate(c) ==
    /\ calls[c].pc = "idle"
    /\ LET v == validate_input(calls[c].candidate, calls[c].jobs)
       IN  calls' = [calls EXCEPT ![c].candidate = v.candidate,
                                  ![c].pc = IF v.ok THEN "cand_lookup" ELSE "done",
                                  ![c].ret = IF v.ok THEN NoResult ELSE Returned(<<>>)]
    /\ UNCHANGED analysis_cache
    /\ CallFrame

\* line 80: candidate_cache_key in self._analysis_cache
CandLookup(c) ==
    /\ calls[c].pc = "cand_lookup"
    /\ calls' = [calls EXCEPT ![c].pc =
                    IF hash_fn[_extract_candidate_text(calls[c].candidate)] \in DOMAIN analysis_cache
                    THEN "cand_read" ELSE "cand_compute"]
    /\ UNCHANGED analysis_cache
    /\ CallFrame

\* line 81
CandRead(c) ==
    /\ calls[c].pc = "cand_read"
    /\ calls' = [calls EXCEPT
                    ![c].candidate_analysis =
                        analysis_cache[hash_fn[_extract_candidate_text(calls[c].candidate)]],
                    ![c].pc = "job_lookup"]
    /\ UNCHANGED analysis_cache
    /\ CallFrame

\* lines 83-86
CandCompute(c) ==
    /\ calls[c].pc = "cand_compute"
    /\ LET txt == _extract_candidate_text(calls[c].candidate)
       IN  /\ calls' = [calls EXCEPT ![c].candidate_analysis = detect_enhanced_sector(txt),
                                     ![c].pc = "job_lookup"]
           /\ analysis_cache' = cache_put(analysis_cache, hash_fn[txt],
                                          detect_enhanced_sector(txt))
    /\ CallFrame

\* line 98: job_cache_key in self._analysis_cache
JobLookup(c) ==
    /\ calls[c].pc = "job_lookup"
    /\ calls' = [calls EXCEPT ![c].pc =
                    IF hash_fn[_extract_job_text(calls[c].jobs.items[calls[c].i])]
                           \in DOMAIN analysis_cache
                    THEN "job_read" ELSE "job_compute"]
    /\ UNCHANGED analysis_cache
    /\ CallFrame

\* lines 106-120 for the listing at position i, its classification known:
\* the result is appended; after the last listing the list is sorted and
\* returned
ScoreListing(c, job_an, cache) ==
    LET job == calls[c].jobs.items[calls[c].i]
        results == Append(calls[c].results,
                          job_result(calls[c].candidate, job,
                                     calls[c].candidate_analysis, job_an, cache))
    IN  IF calls[c].i < Len(calls[c].jobs.items)
        THEN calls' = [calls EXCEPT ![c].results = results,
                                    ![c].i = calls[c].i + 1,
                                    ![c].pc = "job_lookup"]
        ELSE calls' = [calls EXCEPT ![c].results = sort_results(results),
                                    ![c].ret = Returned(sort_results(results)),
                                    ![c].pc = "done"]

\* line 99
JobRead(c) ==
    /\ calls[c].pc = "job_read"
    /\ ScoreListing(c, analysis_cache[hash_fn[_extract_job_text(calls[c].jobs.items[calls[c].i])]],
                    analysis_cache)
    /\ UNCHANGED analysis_cache
    /\ CallFrame

\* lines 101-104
JobCompute(c) ==
    /\ calls[c].pc = "job_compute"
    /\ LET txt == _extract_job_text(calls[c].jobs.items[calls[c].i])
       IN  /\ ScoreListing(c, detect_enhanced_sector(txt),
                            cache_put(analysis_cache, hash_fn[txt], detect_enhanced_sector(txt)))
           /\ analysis_cache' = cache_put(analysis_cache, hash_fn[txt],
                                          detect_enhanced_sector(txt))
    /\ CallFrame

(***************************************************************************)
(* SpecCalls: the calls run concurrently, their steps interleaved in any   *)
(* order.                                                                  *)
(***************************************************************************)
NextCalls ==
    \E c \in CallIds :
        \/ Validate(c)
        \/ CandLookup(c)
        \/ CandRead(c)
        \/ CandCompute(c)
        \/ JobLookup(c)
        \/ JobRead(c)
        \/ JobCompute(c)

SpecCalls == InitCalls /\ [][NextCalls]_vars

(***************************************************************************)
(* SpecSequential: the calls are made one after the other: a call starts   *)
(* only when no other call is in progress.                                 *)
(***************************************************************************)
NoCallInProgress == \A c \in CallIds : calls[c].pc \in {"idle", "done"}

ValidateNext(c) == NoCallInProgress /\ Validate(c)

NextSequential ==
    \E c \in CallIds :
        \/ ValidateNext(c)
        \/ CandLookup(c)
        \/ CandRead(c)
        \/ CandCompute(c)
        \/ JobLookup(c)
        \/ JobRead(c)
        \/ JobCompute(c)

SpecSequential == InitCalls /\ [][NextSequential]_vars

(***************************************************************************)
(* Properties.                                                             *)
(***************************************************************************)
HybridResults == IF hybrid_return # NoResult /\ hybrid_return.kind = "results"
                 THEN hybrid_return.results ELSE <<>>

\* the scorers that supplied a result for the listing of a combined result
Suppliers(r) ==
    { x \in Scorers : _get_job_id(r) \in DOMAIN job_dict(ResultsOf(x)) }

SuppliedScore(x, r) == job_dict(ResultsOf(x))[_get_job_id(r)].matching_score

\* the hybrid score of the scorers in P alone, their weights divided by
\* the sum of their weights
RenormalizedScore(r, P) ==
    LET sc == [x \in P |-> SuppliedScore(x, r)]
        weighted == SumOf([x \in P |-> sc[x] * algorithm_weights[x]], P)
        wsum == SumOf([x \in P |-> algorithm_weights[x]], P)
        positive == {x \in P : sc[x] > 0}
        n == Cardinality(positive)
        bonus == IF n >= 2
                 THEN IF NSquareVariance(sc, positive) < 100 * n * n THEN 5
                      ELSE IF NSquareVariance(sc, positive) < 225 * n * n THEN 3
                      ELSE 0
                 ELSE 0
    IN  Min2(100, Max2(0, weighted \div wsum + bonus))

\* C1: when one of the three scorers supplies no result for a listing, the
\* combined matching_score equals the score of the two remaining scorers
\* with their weights renormalised to sum to 1.
C1_ConsensusDropout ==
    pc = "combine_done" =>
        \A i \in DOMAIN HybridResults :
            Cardinality(Suppliers(HybridResults[i])) = 2 =>
                HybridResults[i].matching_score
                    = RenormalizedScore(HybridResults[i], Suppliers(HybridResults[i]))

\* C2: for a candidate classified gestionnaire_paie and a listing classified
\* assistant_facturation, sector_compatibility <= 0.30 and the final
\* matching_score <= 30, whatever the other inputs.
C2_ScenarioA ==
    ( /\ pc = "v3_done"
      /\ candidate_analysis.specific_job = "gestionnaire_paie"
      /\ job_analysis.specific_job = "assistant_facturation" )
    => /\ match_result.sector_compatibility <= H(30)
       /\ match_result.matching_score <= 30 * Unit

AdminRoles == {"gestionnaire_paie", "assistant_facturation", "assistant_juridique"}

ExclusionCase ==
    /\ pc = "v3_done"
    /\ candidate_analysis.specific_job \in AdminRoles
    /\ job_analysis.sub_sector = "management_operationnel"

\* C3: for a candidate in an administrative/support role and a listing in
\* the sub-sector management_operationnel, the final matching_score <= 30.
C3_ExclusionScore ==
    ExclusionCase => match_result.matching_score <= 30 * Unit

\* C4: for a candidate in an administrative/support role and a listing in
\* the sub-sector management_operationnel, blocking_factors holds an entry
\* of severity high and type job_specificity_incompatibility or
\* sector_incompatibility.
C4_ExclusionBlocking ==
    ExclusionCase =>
        \E i \in DOMAIN match_result.blocking_factors :
            /\ match_result.blocking_factors[i].severity = "high"
            /\ match_result.blocking_factors[i].type
                   \in {"job_specificity_incompatibility", "sector_incompatibility"}

C4_Witness ==
    /\ ExclusionCase
    /\ candidate_analysis.specific_job = "assistant_juridique"
    /\ job_analysis.specific_job = "manager"
    /\ candidate_analysis.specialization_score = Unit
    /\ job_analysis.specialization_score = Unit
    /\ match_result.blocking_factors = <<BlockingFactor("job_specificity_incompatibility", "high")>>

\* C5: two classifications with different specific roles and the same
\* sub-sector are resolved with the coefficient 1.0, whether or not the
\* table holds an entry for the pair.
C5_IdenticalSubSector ==
    ( /\ pc = "compat_done"
      /\ candidate_analysis.specific_job # job_analysis.specific_job
      /\ candidate_analysis.sub_sector = job_analysis.sub_sector )
    => compat_result =
           Min2(Unit, Max2(0,
               (100 * _calculate_level_compatibility(candidate_analysis.job_level,
                                                     job_analysis.job_level))
                   * (Unit \div 10000)
               + specialization_bonus(candidate_analysis, job_analysis)))

\* C6: for every classification c, the no-signal one included,
\* compatibility(c, c) is exactly 1.0.
C6_IdentityCompatibility ==
    (pc = "compat_done" /\ candidate_analysis = job_analysis) => compat_result = Unit

C6_Witness ==
    /\ pc = "compat_done"
    /\ candidate_analysis = job_analysis
    /\ candidate_analysis.specific_job = "gestionnaire_paie"
    /\ compat_result = Unit

ExactSkillMatches ==
    Cardinality({skill_norm(sk) : sk \in candidate_data.competences}
                \cap {skill_norm(sk) : sk \in job_data.competences})

\* C7: the same specific role on both sides gives role_specificity 1.0; with
\* equal seniority levels and at least 3 exactly matching skills as well,
\* the final matching_score is >= 70 for every experience and location.
C7_PositivePair ==
    ( /\ pc = "v3_done"
      /\ candidate_analysis.specific_job = job_analysis.specific_job )
    => /\ match_result.job_specificity_match = Unit
       /\ ( /\ candidate_analysis.job_level = job_analysis.job_level
            /\ ExactSkillMatches >= 3 )
          => match_result.matching_score >= 70 * Unit

C7_Witness ==
    /\ pc = "v3_done"
    /\ candidate_analysis.specific_job = "assistant_facturation"
    /\ job_analysis.specific_job = "assistant_facturation"
    /\ candidate_analysis.job_level = job_analysis.job_level
    /\ ExactSkillMatches >= 3
    /\ candidate_data.annees_experience = 0
    /\ match_result.location_match = H(60)
    /\ match_result.job_specificity_match = Unit
    /\ match_result.matching_score >= 70 * Unit

\* C8: if exactly one scorer raises during a hybrid run, the run still
\* returns results combined from the two scorers that succeeded; only when
\* no scorer is usable does the run end without results.
C8_PartialFailure ==
    (pc = "hybrid_done" /\ input_valid) =>
        /\ Cardinality(scorer_raises) = 1 =>
              /\ hybrid_return.kind = "results"
              /\ hybrid_return.results # <<>>
              /\ \A i \in DOMAIN hybrid_return.results :
                    /\ hybrid_return.results[i].algorithm = "Hybrid_v1.0.0"
                    /\ hybrid_return.results[i].consensus.contributing_algorithms
                           = Scorers \ scorer_raises
        /\ hybrid_return.kind = "raised" => scorer_raises = Scorers

\* C9: a pair in which both sides are the no-signal classification is not
\* given the exact-role-match values role_specificity = 1.0 and
\* sector_compatibility = 1.0.
C9_NoSignalNeutral ==
    ( /\ pc = "v3_done"
      /\ candidate_analysis = NoSignal
      /\ job_analysis = NoSignal )
    => ~ ( /\ match_result.job_specificity_match = Unit
           /\ match_result.sector_compatibility = Unit )

NoScorerHas(l) ==
    \A x \in Scorers : _get_job_id(l) \notin DOMAIN job_dict(ResultsOf(x))

C11_EmptyRequiredSkills ==
    (pc = "v3_done" /\ job_data.competences = {}) =>
        /\ match_result # NoResult
        /\ match_result.skills_match = H(70)

C11_Witness ==
    /\ pc = "v3_done"
    /\ job_data.competences = {}
    /\ candidate_data.competences = {}
    /\ candidate_analysis.specific_job = "gestionnaire_paie"
    /\ job_analysis.specific_job = "manager"
    /\ match_result.skills_match = H(70)

\* C12: the classifier's confidence is in [0,1], the resolver's
\* compatibility is in [0,1], the V3 scorer's matching_score is in [0,100]
\* and the combiner's matching_score, consensus bonus included, is in
\* [0,100].
C12_Bounds ==
    /\ pc = "classify_done" =>
          /\ classification.confidence.den > 0
          /\ 0 <= classification.confidence.num
          /\ classification.confidence.num <= classification.confidence.den
    /\ pc = "compat_done" => (0 <= compat_result /\ compat_result <= Unit)
    /\ pc = "v3_done" =>
          (0 <= match_result.matching_score /\ match_result.matching_score <= 100 * Unit)
    /\ pc = "combine_done" =>
          \A i \in DOMAIN HybridResults :
              /\ 0 <= HybridResults[i].matching_score
              /\ HybridResults[i].matching_score <= 100

\* three scores of 100: the weighted sum 100 plus the consensus bonus 5 is
\* brought back to 100
C12_Witness ==
    /\ pc = "combine_done"
    /\ Len(HybridResults) = 1
    /\ HybridResults[1].enhanced_score = 100
    /\ HybridResults[1].semantic_score = 100
    /\ HybridResults[1].smart_score = 100
    /\ HybridResults[1].matching_score = 100

\* C13: a call of calculate_matches leaves the caller's candidate mapping
\* and listing mappings as they were: no step of a call changes the keys or
\* the values of its arguments (a candidate without a skills field
\* included).
C13_InputImmutability ==
    [][\A c \in CallIds :
          /\ calls'[c].candidate = calls[c].candidate
          /\ calls'[c].jobs = calls[c].jobs]_vars

\* what calculate_matches returns when every classification is computed by
\* detect_enhanced_sector and none is taken from the cache
fresh_matches(candidate, jobs) ==
    LET v == validate_input(candidate, jobs)
        cand_an == detect_enhanced_sector(_extract_candidate_text(v.candidate))
    IN  IF ~v.ok THEN Returned(<<>>)
        ELSE Returned(sort_results(
                 [k \in DOMAIN jobs.items |->
                     job_result(v.candidate, jobs.items[k], cand_an,
                                detect_enhanced_sector(_extract_job_text(jobs.items[k])),
                                cache_put(<< >>, "h1", cand_an))]))

\* C14: on one scorer instance, with calls made one after the other, every
\* call returns the result obtained with freshly computed classifications,
\* whatever earlier calls have left in the analysis cache.
C14_CacheDeterminism ==
    \A c \in CallIds :
        calls[c].pc = "done" =>
            calls[c].ret = fresh_matches(calls[c].candidate, calls[c].jobs)

\* what calculate_matches returns when the call runs alone on an instance
\* whose cache is empty
alone_matches(candidate, jobs) ==
    LET v == validate_input(candidate, jobs)
        cand_txt == _extract_candidate_text(v.candidate)
        cand_an == detect_enhanced_sector(cand_txt)
        job_txt(k) == _extract_job_text(jobs.items[k])
        cache[k \in 0..Len(jobs.items)] ==
            IF k = 0 THEN cache_put(<< >>, hash_fn[cand_txt], cand_an)
            ELSE IF hash_fn[job_txt(k)] \in DOMAIN cache[k - 1] THEN cache[k - 1]
            ELSE cache_put(cache[k - 1], hash_fn[job_txt(k)],
                           detect_enhanced_sector(job_txt(k)))
    IN  IF ~v.ok THEN Returned(<<>>)
        ELSE Returned(sort_results(
                 [k \in DOMAIN jobs.items |->
                     job_result(v.candidate, jobs.items[k], cand_an,
                                cache[k][hash_fn[job_txt(k)]], cache[k])]))

\* C15: calls running concurrently on one scorer instance, their cache
\* reads and writes interleaved in any order, each return what the call
\* returns when it runs alone.
C15_ConcurrentCalls ==
    \A c \in CallIds :
        calls[c].pc = "done" =>
            calls[c].ret = alone_matches(calls[c].candidate, calls[c].jobs)

\* C16: a call given a candidate that is not a mapping, a listings argument
\* that is not a non-empty list, or a listing that is not a mapping ends by
\* raising a validation error, not by returning a result.
C16_MalformedInput ==
    \A c \in CallIds :
        ( /\ calls[c].pc = "done"
          /\ ~validate_input(calls[c].candidate, calls[c].jobs).ok )
        => calls[c].ret = Raised

OrderedLevels == {"junior", "confirme", "senior", "expert"}

\* C17: for two classifications with different specific roles and different
\* sub-sectors, compatibility = clamp to [0,1] of coef * m + bonus: coef is
\* the table entry for (a.sub_sector, b.sub_sector) if present, else the
\* entry for (b.sub_sector, a.sub_sector) if present, else 0.3; m is 1.0,
\* 0.85, 0.65, 0.40 for a seniority gap of 0, 1, 2, >= 3 in the order
\* junior < confirme < senior < expert; bonus is min(0.15, 0.15 * mean of the
\* two specialization scores).
C17_CompatibilityFormula ==
    ( /\ pc = "compat_done"
      /\ candidate_analysis.specific_job # job_analysis.specific_job
      /\ candidate_analysis.sub_sector # job_analysis.sub_sector
      /\ candidate_analysis.job_level \in OrderedLevels
      /\ job_analysis.job_level \in OrderedLevels )
    => LET a == candidate_analysis
           b == job_analysis
           rank == [junior |-> 1, confirme |-> 2, senior |-> 3, expert |-> 4]
           gap == Abs(rank[a.job_level] - rank[b.job_level])
           m == IF gap = 0 THEN 100 ELSE IF gap = 1 THEN 85 ELSE IF gap = 2 THEN 65 ELSE 40
           direct == {e \in enhanced_compatibility_matrix : e.pair = <<a.sub_sector, b.sub_sector>>}
           reverse == {e \in enhanced_compatibility_matrix : e.pair = <<b.sub_sector, a.sub_sector>>}
           coef == IF direct # {} THEN (CHOOSE e \in direct : TRUE).coef
                   ELSE IF reverse # {} THEN (CHOOSE e \in reverse : TRUE).coef
                   ELSE 30
           bonus == Min2((15 * Unit) \div 100,
                         (15 * (a.specialization_score + b.specialization_score)) \div 200)
           value == (coef * m) * (Unit \div 10000) + bonus
       IN  compat_result = (IF value > Unit THEN Unit ELSE IF value < 0 THEN 0 ELSE value)

\* gestionnaire_rh against gestionnaire_paie: no entry for
\* (administration_personnel, paie_social), the reversed pair holds 0.90
C17_Witness ==
    /\ pc = "compat_done"
    /\ candidate_analysis.specific_job = "gestionnaire_rh"
    /\ job_analysis.specific_job = "gestionnaire_paie"
    /\ candidate_analysis.job_level = "confirme"
    /\ job_analysis.job_level = "senior"
    /\ matrix_get("administration_personnel", "paie_social") = -1
    /\ compat_result = (90 * 85) * (Unit \div 10000)
                          + specialization_bonus(candidate_analysis, job_analysis)

\* the sectors, other than the primary one, of the roles after the first
\* whose score is at least 30% of the top score, in the order of the
\* sorted roles, cut after two entries; with distinct, a sector is listed
\* once, for its best role
QualifyingSectors(txt, distinct) ==
    LET sorted == sorted_jobs(job_scores(txt))
        top == job_score(sorted[1], txt)
        qualifies(k) == /\ 10 * job_score(sorted[k], txt).score >= 3 * top.score
                        /\ job_score(sorted[k], txt).sector # top.sector
        positions == {k \in 2..Len(sorted) :
                         /\ qualifies(k)
                         /\ distinct =>
                                ~ \E o \in 2..(k - 1) :
                                      /\ qualifies(o)
                                      /\ job_score(sorted[o], txt).sector
                                             = job_score(sorted[k], txt).sector}
        nth(n) == CHOOSE k \in positions : Cardinality({o \in positions : o < k}) = n - 1
    IN  [n \in 1..Min2(2, Cardinality(positions)) |-> job_score(sorted[nth(n)], txt).sector]

\* C18: secondary_sectors holds the sectors, other than the primary sector,
\* of all other roles whose score is at least 30% of the top score, in
\* descending score order and limited to 2 entries, however many roles of
\* the primary sector outrank them (a sector with several qualifying roles
\* may be listed once or once for each role).
C18_SecondarySectors ==
    (pc = "classify_done" /\ classification.specific_job # "inconnu") =>
        \/ classification.secondary_sectors = QualifyingSectors(text, FALSE)
        \/ classification.secondary_sectors = QualifyingSectors(text, TRUE)

\* the sectors excluded by the global rules whose trigger keywords are all
\* in the text
ExcludedSectors(txt) ==
    UNION {rule.exclude_sectors : rule \in {r \in exclusion_rules : all_in_text(r.if_contains, txt)}}

\* C19: when the text contains all trigger keywords of a global exclusion
\* rule, no role of a sector excluded by the rule is the primary role, none
\* appears among the secondary sectors and none counts in the denominator
\* of the confidence.
C19_GlobalExclusion ==
    (pc = "classify_done" /\ ExcludedSectors(text) # {}) =>
        /\ classification.primary_sector \notin ExcludedSectors(text)
        /\ \A k \in DOMAIN classification.secondary_sectors :
              classification.secondary_sectors[k] \notin ExcludedSectors(text)
        /\ classification.specific_job # "inconnu" =>
              LET counted == {job \in AllJobs :
                                 /\ combination_found(job, text)
                                 /\ sector_hierarchy[job].sector \notin ExcludedSectors(text)
                                 /\ ~ \E ec \in job_configs[job].exclude_combinations :
                                        all_in_text(ec, text)}
                  total == SumOf([j \in counted |-> job_score(j, text).score], counted)
                  best == job_score(classification.specific_job, text).score
              IN  classification.confidence.num * Max2(total, 2)
                      = Min2(best, Max2(total, 2)) * classification.confidence.den

\* "assistant, juridique, directeur": directeur, of management_direction,
\* has its combination in the text and is left out
C19_Witness ==
    /\ pc = "classify_done"
    /\ {"assistant", "juridique", "directeur"} \subseteq text
    /\ combination_found("directeur", text)
    /\ classification.specific_job = "assistant_juridique"
    /\ classification.confidence = [num |-> 1, den |-> 1]

\* C20: with at least two participating scores the agreement level is
\* very_high when the standard deviation is <= 5, high when <= 10, medium
\* when <= 15, low when <= 25 and very_low otherwise, boundaries included.
C20_AgreementLevel ==
    pc = "combine_done" =>
        \A i \in DOMAIN HybridResults :
            LET r == HybridResults[i]
                P == Suppliers(r)
                n == Cardinality(P)
                v == NSquareVariance([x \in P |-> SuppliedScore(x, r)], P)
            IN  n >= 2 =>
                    r.consensus.level =
                        (IF v <= 25 * n * n THEN "very_high"
                         ELSE IF v <= 100 * n * n THEN "high"
                         ELSE IF v <= 225 * n * n THEN "medium"
                         ELSE IF v <= 625 * n * n THEN "low"
                         ELSE "very_low")

\* C21: for a result with at least two participating scores the confidence
\* level is very_high when the combined score is >= 85 and the agreement is
\* very_high or high; otherwise it is high when the combined score is >= 75
\* and the agreement is anything other than very_low (low included).
C21_ConfidenceTable ==
    pc = "combine_done" =>
        \A i \in DOMAIN HybridResults :
            LET r == HybridResults[i]
            IN  Cardinality(Suppliers(r)) >= 2 =>
                    IF r.matching_score >= 85 /\ r.consensus.level \in {"very_high", "high"}
                    THEN r.confidence_level = "very_high"
                    ELSE (r.matching_score >= 75 /\ r.consensus.level # "very_low")
                             => r.confidence_level = "high"

\* C22: the V3 scorer emits a medium-severity experience_level_gap blocking
\* factor whenever the absolute difference of the ranks of the candidate's
\* and the listing's levels (junior 1, confirmed 2, senior 3, expert 4)
\* exceeds the maximum of 2.
C22_SeniorityGap ==
    (pc = "v3_done"
        /\ Abs(level_hierarchy(candidate_analysis.job_level)
                   - level_hierarchy(job_analysis.job_level)) > 2)
    => \E i \in DOMAIN match_result.blocking_factors :
           match_result.blocking_factors[i] = BlockingFactor("experience_level_gap", "medium")

\* C23: in the V2.1 and the V3 scorers the blocking factors of a result
\* hold an entry of type sector_incompatibility with severity high if and
\* only if the sector compatibility of the pair is <= 0.25.
C23_SectorBlocking ==
    pc \in {"v2_done", "v3_done"} =>
        ((\E i \in DOMAIN match_result.blocking_factors :
              match_result.blocking_factors[i]
                  = BlockingFactor("sector_incompatibility", "high"))
         <=> match_result.sector_compatibility <= H(25))

\* at the threshold: commercial and comptabilite have coefficient 0.25
C23_Witness ==
    /\ pc = "v2_done"
    /\ candidate_analysis.primary_sector = "commercial"
    /\ job_analysis.primary_sector = "comptabilite"
    /\ match_result.sector_compatibility = H(25)
    /\ match_result.blocking_factors[1] = BlockingFactor("sector_incompatibility", "high")

\* C26: every result of the V2.1 and the V3 scorers carries a non-empty
\* recommendations list, whose first entry is the template of the bucket of
\* the final score, for every final score and every set of blocking
\* factors.
C26_RecommendationsPresent ==
    pc \in {"v2_done", "v3_done"} =>
        /\ match_result.recommendations # <<>>
        /\ match_result.recommendations[1]
               \in {"excellent_match", "bon_match", "match_modere", "match_faible"}

\* a V3 result with no blocking factor and no other recommendation than the
\* bucket template
C26_Witness ==
    /\ pc = "v3_done"
    /\ match_result.blocking_factors = <<>>
    /\ match_result.recommendations = <<"bon_match">>

(***************************************************************************)
(* SuperSmartMatchServiceV3.match on the service instance of app.py, with  *)
(* the in-memory cache of CacheManager (no Redis client) and the           *)
(* PerformanceMonitor.  A request names the algorithm "auto",              *)
(* "enhanced-v3" or a name that is not registered; the registered ones     *)
(* run the V3 scorer, whose classifications are the ones                   *)
(* detect_enhanced_sector computes.  The md5 digests of the cache key are  *)
(* taken as injective: the key is held as the record that is digested.     *)
(* Timings (execution_time_ms, timestamps) are left out of the results.    *)
(***************************************************************************)
MaxRequests == 2

MaxJobs == 2

\* the keys of the algorithms dict, in its order
AlgorithmNames ==
    <<"smart-match", "enhanced-v2", "enhanced-v3", "semantic", "hybrid",
      "enhanced", "latest">>

ServiceAlgorithms == {AlgorithmNames[i] : i \in DOMAIN AlgorithmNames}

_generate_cache_key(candidate, jobs, algorithm, options) ==
    [candidate_skills |-> get(candidate, "competences", {}),
     candidate_location |-> get(candidate, "adresse", {}),
     candidate_experience |-> get(candidate, "annees_experience", 0),
     candidate_title |-> get(candidate, "titre_poste", ""),
     candidate_missions_hash |-> get(candidate, "missions", <<>>),
     job_count |-> Len(jobs.items),
     job_titles_hash |-> [i \in DOMAIN jobs.items |-> get(jobs.items[i], "titre", "")],
     job_skills_hash |-> [i \in DOMAIN jobs.items |->
                             get(jobs.items[i], "competences", {})],
     algorithm |-> algorithm,
     limit |-> options.limit,
     version |-> "3.0.0"]

\* del self.memory_cache[key]
cache_delete(cache, key) == [k \in DOMAIN cache \ {key} |-> cache[k]]

\* CacheManager.get; expired tells whether expires_at has passed
cache_get(cache, stats, key, expired) ==
    IF key \in DOMAIN cache /\ ~expired
    THEN [value |-> cache[key], cache |-> cache,
          stats |-> [stats EXCEPT !.hits = @ + 1]]
    ELSE [value |-> None, cache |-> cache_delete(cache, key),
          stats |-> [stats EXCEPT !.misses = @ + 1]]

\* CacheManager.set
cache_set(cache, stats, key, value) ==
    [cache |-> cache_put(cache, key, value),
     stats |-> [stats EXCEPT !.sets = @ + 1]]

\* lines 104-106: the cache is read in the modes fast and balanced only
lookup(svc, req, expired) ==
    IF req.options.performance_mode \in {"fast", "balanced"}
    THEN cache_get(svc.memory_cache, svc.cache_stats,
                   _generate_cache_key(req.candidate_data, req.jobs_data,
                                       req.algorithm, req.options),
                   expired)
    ELSE [value |-> None, cache |-> svc.memory_cache, stats |-> svc.cache_stats]

\* EnhancedMatchingV3Algorithm.calculate_matches, as a list
calculate_matches(candidate, jobs) ==
    fresh_matches(candidate, jobs).results

ServiceCandidates ==
    {DictValue([titre_poste |-> "paie", competences |-> {}, adresse |-> {"lyon"}])}

ServiceListings ==
    {DictValue([titre |-> "paie", localisation |-> {}]),
     DictValue([titre |-> "paie", localisation |-> {"remote"}]),
     DictValue([titre |-> "manager", localisation |-> {}])}

ServiceJobs ==
    {ListValue(items) : items \in UNION {[1..n -> ServiceListings] : n \in 1..MaxJobs}}

\* what the scorer returns on each of the requests considered
scorer_results ==
    [candidate \in ServiceCandidates |->
        [jobs \in ServiceJobs |-> calculate_matches(candidate, jobs)]]

\* matches[:limit], limit >= 0
take(matches, limit) == SubSeq(matches, 1, Min2(limit, Len(matches)))

_enrich_matches_v3(matches, algorithm) ==
    [i \in DOMAIN matches |->
        [job |-> matches[i].job,
         match |-> matches[i].match,
         cache_hit |-> matches[i].cache_hit,
         algorithm_version |-> algorithm,
         precision_metadata_v3 |->
             [blocking_factors_analyzed |-> Len(matches[i].match.blocking_factors),
              recommendations_count |-> Len(matches[i].match.recommendations)]]]

\* PerformanceMonitor.record_request
record_request(history, algorithm, job_count, match_count) ==
    Append(history, [algorithm |-> algorithm, job_count |-> job_count,
                     match_count |-> match_count, success |-> TRUE])

\* lines 107-110: the cached object is marked and returned; the cache holds
\* the same object
cached_outcome(svc, req, looked) ==
    LET hit == [looked.value EXCEPT !.cache_hit = TRUE]
    IN  [path |-> "cached",
         response |-> hit,
         memory_cache |-> cache_put(looked.cache,
                                    _generate_cache_key(req.candidate_data, req.jobs_data,
                                                        req.algorithm, req.options),
                                    hit),
         cache_stats |-> looked.stats,
         request_history |-> svc.request_history,
         scorer_calls |-> svc.scorer_calls]

\* the refusal, with the request recorded in the monitor all the same
Mut_unknown_outcome_recorded(svc, selected_algorithm, looked) ==
    [path |-> "unknown",
     response |-> [kind |-> "error", algorithm |-> selected_algorithm,
                   available_algorithms |-> AlgorithmNames],
     memory_cache |-> looked.cache,
     cache_stats |-> looked.stats,
     request_history |-> record_request(svc.request_history, selected_algorithm, 0, 0),
     scorer_calls |-> svc.scorer_calls]

\* lines 120-126
unknown_outcome(svc, selected_algorithm, looked) ==
    [path |-> "unknown",
     response |-> [kind |-> "error", algorithm |-> selected_algorithm,
                   available_algorithms |-> AlgorithmNames],
     memory_cache |-> looked.cache,
     cache_stats |-> looked.stats,
     request_history |-> svc.request_history,
     scorer_calls |-> svc.scorer_calls]

\* lines 153-173: the result built from the enriched matches
service_result(selected_algorithm, req, enriched_matches, stats) ==
    [kind |-> "result",
     algorithm_used |-> selected_algorithm,
     total_jobs_analyzed |-> Len(req.jobs_data.items),
     matches |-> enriched_matches,
     cache_hit_rate |-> <<stats.hits, stats.hits + stats.misses>>,
     optimization_applied |-> req.options.performance_mode,
     cache_hit |-> FALSE]

\* lines 175-187: the result is cached in the modes balanced and accuracy,
\* the request is recorded
stored_outcome(svc, req, looked, result) ==
    LET written == IF req.options.performance_mode \in {"balanced", "accuracy"}
                   THEN cache_set(looked.cache, looked.stats,
                                  _generate_cache_key(req.candidate_data, req.jobs_data,
                                                      req.algorithm, req.options),
                                  result)
                   ELSE [cache |-> looked.cache, stats |-> looked.stats]
    IN  [path |-> "computed",
         response |-> result,
         memory_cache |-> written.cache,
         cache_stats |-> written.stats,
         request_history |-> record_request(svc.request_history, result.algorithm_used,
                                            result.total_jobs_analyzed,
                                            Len(result.matches)),
         scorer_calls |-> svc.scorer_calls + 1]

\* lines 129-173
computed_outcome(svc, req, selected_algorithm, looked) ==
    stored_outcome(svc, req, looked,
        service_result(selected_algorithm, req,
            _enrich_matches_v3(take(scorer_results[req.candidate_data][req.jobs_data],
                                    req.options.limit),
                               selected_algorithm),
            looked.stats))

\* the handler after the cache has been read
match_after_lookup(svc, req, selected_algorithm, looked) ==
    IF looked.value # None THEN cached_outcome(svc, req, looked)
    ELSE IF selected_algorithm \notin ServiceAlgorithms
    THEN unknown_outcome(svc, selected_algorithm, looked)
    ELSE computed_outcome(svc, req, selected_algorithm, looked)

\* SuperSmartMatchServiceV3.match: the response and the service as the call
\* leaves it
match(svc, req, expired) ==
    match_after_lookup(svc, req,
                       IF req.algorithm = "auto" THEN "enhanced-v3" ELSE req.algorithm,
                       lookup(svc, req, expired))

RequestAlgorithms == {"auto", "enhanced-v4"}

Requests ==
    [candidate_data : ServiceCandidates,
     jobs_data : ServiceJobs,
     algorithm : RequestAlgorithms,
     options : [limit : 1..MaxJobs, performance_mode : {"fast", "balanced", "accuracy"}]]

InitService ==
    /\ pc = "service"
    /\ ServiceIdle
    /\ candidate_analysis = NoSignal
    /\ job_analysis = NoSignal
    /\ candidate_data = NoData
    /\ job_data = NoJobData
    /\ match_result = NoResult
    /\ compat_result = NoResult
    /\ HybridIdle
    /\ ClassifierIdle
    /\ analysis_cache = << >>
    /\ hash_fn = << >>
    /\ calls = << >>

Service == [memory_cache |-> memory_cache, cache_stats |-> cache_stats,
            request_history |-> request_history, scorer_calls |-> scorer_calls]

\* the service after a match request that returned out
Serve(req, out) ==
    /\ request' = req
    /\ response' = out.response
    /\ memory_cache' = out.memory_cache
    /\ cache_stats' = out.cache_stats
    /\ request_history' = out.request_history
    /\ scorer_calls' = out.scorer_calls
    /\ served' = served + 1
    /\ UNCHANGED <<pc, v3vars, hybridvars, clsvars, callvars>>

\* one match request, handled from its first line to its return: answered
\* from the cache
MatchCached ==
    /\ pc = "service"
    /\ served < MaxRequests
    /\ \E req \in Requests, expired \in BOOLEAN :
          LET out == match(Service, req, expired)
          IN  out.path = "cached" /\ Serve(req, out)

\* refused, the algorithm is not registered
MatchUnknown ==
    /\ pc = "service"
    /\ served < MaxRequests
    /\ \E req \in Requests, expired \in BOOLEAN :
          LET out == match(Service, req, expired)
          IN  out.path = "unknown" /\ Serve(req, out)

\* computed by the scorer
MatchComputed ==
    /\ pc = "service"
    /\ served < MaxRequests
    /\ \E req \in Requests, expired \in BOOLEAN :
          LET out == match(Service, req, expired)
          IN  out.path = "computed" /\ Serve(req, out)

NextService == MatchCached \/ MatchUnknown \/ MatchComputed

SpecService == InitService /\ [][NextService]_vars

\* the matches of the result that match computes for req when it does not
\* read the cache
computed_matches(req) ==
    _enrich_matches_v3(take(scorer_results[req.candidate_data][req.jobs_data],
                            req.options.limit),
                       IF req.algorithm = "auto" THEN "enhanced-v3" ELSE req.algorithm)

\* C24: a result that match returns from the cache carries the matches that
\* a fresh computation produces for the request it answers.
C24_CacheTransparency ==
    (response # NoResult /\ response.kind = "result" /\ response.cache_hit) =>
        response.matches = computed_matches(request)

\* the matching_score the scorer gives the listing for the candidate
listing_score(candidate, job) ==
    scorer_results[candidate][ListValue(<<job>>)][1].match.matching_score

\* the listings of the request that are not among the returned matches
left_out(req, matches) ==
    {k \in DOMAIN req.jobs_data.items :
        \A i \in DOMAIN matches : matches[i].job # req.jobs_data.items[k]}

\* C29: a result of match holds at most limit matches, in non-increasing
\* matching_score order, and no listing of the request that is left out
\* scores strictly higher than a returned one.
C29_TopN ==
    (response # NoResult /\ response.kind = "result") =>
        /\ Len(response.matches) <= request.options.limit
        /\ \A i, j \in DOMAIN response.matches :
              i < j => response.matches[i].match.matching_score
                          >= response.matches[j].match.matching_score
        /\ \A k \in left_out(request, response.matches) :
              \A i \in DOMAIN response.matches :
                  listing_score(request.candidate_data, request.jobs_data.items[k])
                      <= response.matches[i].match.matching_score

\* C30: a match request that names an algorithm that is not registered
\* returns an error result listing the registered algorithms, calls no
\* scorer, leaves the cache entries as they were and records nothing in the
\* performance monitor.
C30_UnknownAlgorithm ==
    [][(served' = served + 1 /\ request'.algorithm \notin ServiceAlgorithms \cup {"auto"}) =>
          /\ response'.kind = "error"
          /\ response'.available_algorithms = AlgorithmNames
          /\ scorer_calls' = scorer_calls
          /\ memory_cache' = memory_cache
          /\ cache_stats'.sets = cache_stats.sets
          /\ request_history' = request_history]_vars

\* an unregistered algorithm is refused after an earlier request was
\* computed, cached and recorded
C30_Witness ==
    /\ response # NoResult
    /\ response.kind = "error"
    /\ request.algorithm = "enhanced-v4"
    /\ DOMAIN memory_cache # {}
    /\ Len(request_history) = 1
    /\ scorer_calls = 1

\* the non-excluded roles that reach the maximum accumulated score on txt
MaxScoreJobs(txt) ==
    {job \in scored_jobs(txt) :
        \A o \in scored_jobs(txt) : job_score(o, txt).score <= job_score(job, txt).score}

\* C25: when roles are scored, the primary role is, among the non-excluded
\* roles with the maximum accumulated score, the one declared first in the
\* taxonomy hierarchy.
C25_TieBreak ==
    (pc = "classify_done" /\ MaxScoreJobs(text) # {}) =>
        /\ classification.specific_job \in MaxScoreJobs(text)
        /\ \A o \in MaxScoreJobs(text) :
              JobIndex(classification.specific_job) <= JobIndex(o)

\* a text on which several roles share the maximum score
C25_Witness ==
    /\ pc = "classify_done"
    /\ Cardinality(MaxScoreJobs(text)) >= 2
    /\ classification.specific_job \in MaxScoreJobs(text)

\* C27: the compatibility of two classifications does not depend on their
\* order, and a sub-sector pair stored in the table in both orders carries
\* the same coefficient in both.
C27_Symmetry ==
    /\ pc = "compat_done" =>
          compat_result = get_enhanced_compatibility_score(job_analysis, candidate_analysis)
    /\ \A e, f \in enhanced_compatibility_matrix :
          (e.pair[1] = f.pair[2] /\ e.pair[2] = f.pair[1]) => e.coef = f.coef

\* two roles of different levels whose sub-sector pair is stored in the
\* table in the order opposite to the call's
C27_Witness ==
    /\ pc = "compat_done"
    /\ candidate_analysis.specific_job # job_analysis.specific_job
    /\ candidate_analysis.job_level # job_analysis.job_level
    /\ matrix_get(candidate_analysis.sub_sector, job_analysis.sub_sector) = -1
    /\ matrix_get(job_analysis.sub_sector, candidate_analysis.sub_sector) # -1
    /\ compat_result < Unit

(***************************************************************************)
(* SpecListings: one call of _combine_results on the lists the three       *)
(* scorers return when each of them returns one result for every listing   *)
(* of jobs_data.  A listing is held by the three fields _get_job_id reads; *)
(* two listings of jobs_data may carry the same three values (an id is     *)
(* optional, and the same title can be open twice at one company).         *)
(***************************************************************************)
ListingFields == [id : {"", "1", "2"}, titre : {"dev"}, entreprise : {"acme", "corp"}]

JobsLists == UNION {[1..n -> ListingFields] : n \in 1..MaxListings}

\* results.sort(key=matching_score, reverse=True) on one result per listing,
\* sc[i] being the score of listing i: a stable sort
scorer_output(jobs, sc, alg) ==
    LET before(i, j) == sc[i] > sc[j] \/ (sc[i] = sc[j] /\ i < j)
        at(k) == CHOOSE i \in DOMAIN jobs :
                     Cardinality({j \in DOMAIN jobs : before(j, i)}) = k - 1
    IN  [k \in DOMAIN jobs |->
            [id |-> jobs[at(k)].id, titre |-> jobs[at(k)].titre,
             entreprise |-> jobs[at(k)].entreprise,
             matching_score |-> sc[at(k)], algorithm |-> alg]]

InitListings ==
    /\ pc = "combine_call"
    /\ \E jobs \in JobsLists :
          \E se, ss, sm \in [DOMAIN jobs -> ScoreInputs] :
              /\ enhanced_results = scorer_output(jobs, se, "Enhanced_v1.0.0")
              /\ semantic_results = scorer_output(jobs, ss, "SemanticAnalyzer_v1.0.0")
              /\ smart_results = scorer_output(jobs, sm, "SmartMatch_v1.0.0")
    /\ scorer_raises = {}
    /\ input_valid = TRUE
    /\ hybrid_return = NoResult
    /\ candidate_analysis = NoSignal
    /\ job_analysis = NoSignal
    /\ candidate_data = NoData
    /\ job_data = NoJobData
    /\ match_result = NoResult
    /\ compat_result = NoResult
    /\ ClassifierIdle
    /\ CallsIdle
    /\ ServiceIdle

NextListings == CombineResults

SpecListings == InitListings /\ [][NextListings]_vars

\* C28: when every scorer returns one result for every listing, the
\* combiner returns as many combined results as there are listings.
C28_OnePerListing ==
    (pc = "combine_done" /\ hybrid_return.kind = "results") =>
        Len(hybrid_return.results) = Len(enhanced_results)

====
